---- MODULE Spec2Model ----
(***************************************************************************)
(* Model of the data pipeline of the medical dashboard (src/app.py):       *)
(* load_data() normalises the two exam summary tables (CBSE = Format A,    *)
(* CBSSA = Format B) into exam_records and epc_scores, and the views read  *)
(* those tables.                                                           *)
(*                                                                         *)
(* A table is a sequence of columns; a column is a record                  *)
(*   [name |-> column name, vals |-> sequence of cells, one per row].      *)
(* Column names may repeat, as in a pandas DataFrame.  A cell is a record  *)
(*   [k |-> kind, v |-> integer, s |-> string] with kind                   *)
(*   "num"  a number (v, in units of 1/Scale),                             *)
(*   "nan"  a missing value (NaN),                                         *)
(*   "text" a string that does not parse as a number,                      *)
(*   "date" a date (v = day number),                                       *)
(*   "str"  a string constant written by the program (s),                  *)
(*   "none" a None written by the program.                                 *)
(***************************************************************************)
EXTENDS Integers, Sequences, FiniteSets, TLC

VARIABLES cbse_csv, cbssa_csv, qlf_csv, pc, students, exam_records, epc_scores,
          qlf_responses, errors, view, raised, listing, report, passed,
          analytics_file, session_state, clock, calls,
          users_csv, reset_tokens_csv, issued, last_run, held

vars ==
  <<cbse_csv, cbssa_csv, qlf_csv, pc, students, exam_records, epc_scores,
    qlf_responses, errors, view, raised, listing, report, passed,
    analytics_file, session_state, clock, calls,
    users_csv, reset_tokens_csv, issued, last_run, held>>

\* the CSV files under data/
files == <<cbse_csv, cbssa_csv, qlf_csv>>

\* the event log: the file experiment_analytics.json, st.session_state, the
\* clock, and the calls of log_user_action made in the last step
log == <<analytics_file, session_state, clock, calls>>

\* the accounts: the files users.csv and reset_tokens.csv, the number of
\* reset tokens generated, the handler of the account forms that ran last
\* with what it showed, and what each session holds between reading a file
\* and writing it back
accounts == <<users_csv, reset_tokens_csv, issued, last_run, held>>

\* the data files, the tables and what the pages show
data ==
  <<files, pc, students, exam_records, epc_scores, qlf_responses, errors, view,
    raised, listing, report, passed>>

(***************************************************************************)
(* Bounds of the model.                                                    *)
(***************************************************************************)
\* scores are held in units of 1/Scale points
Scale == 10
\* the score grid of the single-row inputs runs over GridMin..GridMax points
GridMin == 56
GridMax == 72
\* most rows of the two summary tables together, where the rows vary
MaxRows == 2
\* most entries written to the event log
MaxClock == 4
\* most rows of users.csv
MaxUsers == 2
\* most reset tokens generated
MaxTokens == 2
\* the clock of the account handlers moves MaxSteps times at most
MaxSteps == 2

(***************************************************************************)
(* Cells.                                                                  *)
(***************************************************************************)
Num(n) == [k |-> "num", v |-> n, s |-> ""]
NaN == [k |-> "nan", v |-> 0, s |-> ""]
None == [k |-> "none", v |-> 0, s |-> ""]
Text(i) == [k |-> "text", v |-> i, s |-> ""]
Date(d) == [k |-> "date", v |-> d, s |-> ""]
Str(x) == [k |-> "str", v |-> 0, s |-> x]

\* a missing value in the sense of pandas isna()
IsNA(c) == c.k \in {"nan", "none"}

(***************************************************************************)
(* Column names.  NameOrder lists every column name of the model in the    *)
(* order of Python's string comparison (code points), which is the order   *)
(* sorted() produces.                                                      *)
(***************************************************************************)
NameOrder ==
  << "Anatomy", "Biochem", "Cardio",
     "band", "cbse_band", "cbse_date", "cbse_epc_score", "cbssa_band",
     "cbssa_date", "cbssa_epc_score", "cohort_year", "exam_date",
     "exam_round", "exam_type", "flag", "step1_pass_prob", "student_id",
     "total_score" >>

NamePos(n) == CHOOSE i \in DOMAIN NameOrder : NameOrder[i] = n

RECURSIVE sorted(_)
sorted(S) ==
  IF S = {} THEN << >>
  ELSE LET m == CHOOSE x \in S : \A y \in S : NamePos(x) <= NamePos(y)
       IN  <<m>> \o sorted(S \ {m})

SeqToSet(q) == {q[i] : i \in DOMAIN q}

(***************************************************************************)
(* DataFrame operations used by load_data.                                 *)
(***************************************************************************)
Columns(t) == [i \in DOMAIN t |-> t[i].name]

HasCol(t, n) == \E i \in DOMAIN t : t[i].name = n

RECURSIVE KeepIdx(_, _, _)
KeepIdx(t, keep, i) ==
  IF i > Len(t) THEN << >>
  ELSE (IF i \in keep THEN <<t[i]>> ELSE << >>) \o KeepIdx(t, keep, i + 1)

\* the last column of every name kept instead of the first
DropDuplicateColumnsKeepLast(t) ==
  KeepIdx(t, {i \in DOMAIN t : \A j \in (i + 1)..Len(t) : t[j].name # t[i].name}, 1)

\* df.loc[:, ~df.columns.duplicated()]: the first column of every name
DropDuplicateColumns(t) ==
  KeepIdx(t, {i \in DOMAIN t : \A j \in 1..(i - 1) : t[j].name # t[i].name}, 1)

\* df.rename(columns=m): m maps old names to new names, others are kept
Rename(t, m) ==
  [i \in DOMAIN t |->
     [t[i] EXCEPT !.name = IF t[i].name \in DOMAIN m THEN m[t[i].name]
                           ELSE t[i].name]]

\* df.drop(columns=[n]) where n is a column of df
DropColumn(t, n) == KeepIdx(t, {i \in DOMAIN t : t[i].name # n}, 1)

\* the column df[n] where n names one column of df
Col(t, n) == t[CHOOSE i \in DOMAIN t : t[i].name = n]

\* df[n] = vals where n names at most one column of df
SetCol(t, n, vals) ==
  IF HasCol(t, n)
  THEN [i \in DOMAIN t |-> IF t[i].name = n THEN [t[i] EXCEPT !.vals = vals]
                           ELSE t[i]]
  ELSE Append(t, [name |-> n, vals |-> vals])

\* df[cols] where every name of cols is one column of df
Select(t, cols) == [i \in DOMAIN cols |-> Col(t, cols[i])]

Missing(t, cols) == SelectSeq(cols, LAMBDA c : ~HasCol(t, c))

\* pd.concat([a, b], ignore_index=True) for two frames of the same columns
Concat(a, b) ==
  [i \in DOMAIN a |-> [name |-> a[i].name,
                       vals |-> a[i].vals \o Col(b, a[i].name).vals]]

(***************************************************************************)
(* load_data(), stage by stage.                                            *)
(***************************************************************************)
RowCount(t) == IF Len(t) = 0 THEN 0 ELSE Len(t[1].vals)

\* cbse.rename(columns={"cbse_epc_score": "total_score", "cbse_date": "exam_date"})
RenameCbse(t) ==
  Rename(t, ("cbse_epc_score" :> "total_score") @@ ("cbse_date" :> "exam_date"))

\* cbssa.drop(columns=["exam_date"]) raises KeyError without that column
DropExamDateRaises(t) == HasCol(t, "cbssa_date") /\ ~HasCol(t, "exam_date")

RenameCbssa(t) ==
  IF HasCol(t, "cbssa_date")
  THEN Rename(DropColumn(t, "exam_date"),
              ("cbssa_epc_score" :> "total_score") @@ ("cbssa_date" :> "exam_date"))
  ELSE Rename(t, "cbssa_epc_score" :> "total_score")

\* both tables tagged with the same constant
TagExamTypeCbse(t, tag) ==
  SetCol(t, "exam_type", [i \in 1..RowCount(t) |-> Str("CBSE")])

\* df["exam_type"] = tag
TagExamType(t, tag) == SetCol(t, "exam_type", [i \in 1..RowCount(t) |-> Str(tag)])

\* score >= threshold in Python: False for NaN
ScoreGE(score, threshold) == score.k = "num" /\ score.v >= threshold * Scale

\* the classifier with the boundaries excluded (> in place of >=)
assign_flag_strict(score) ==
  IF score.k = "num" /\ score.v > 66 * Scale THEN "Green"
  ELSE IF score.k = "num" /\ score.v > 62 * Scale THEN "Yellow"
  ELSE "Red"

assign_flag(score) ==
  IF ScoreGE(score, 66) THEN "Green"
  ELSE IF ScoreGE(score, 62) THEN "Yellow"
  ELSE "Red"

\* df["total_score"] raises KeyError without that column; comparing a string
\* with a number raises TypeError
ApplyFlagRaises(t) ==
  \/ ~HasCol(t, "total_score")
  \/ \E i \in 1..RowCount(t) : Col(t, "total_score").vals[i].k = "text"

\* the flags assigned against the row order (index not aligned)
ApplyFlagMisaligned(t) ==
  SetCol(t, "flag",
         [i \in 1..RowCount(t) |->
            Str(assign_flag(Col(t, "total_score").vals[RowCount(t) + 1 - i]))])

\* df["flag"] = df["total_score"].apply(assign_flag)
ApplyFlag(t) ==
  SetCol(t, "flag",
         [i \in 1..RowCount(t) |-> Str(assign_flag(Col(t, "total_score").vals[i]))])

\* the tables as they stand at line 965, after the flags are applied
Prepared(t, fmt) ==
  LET t1 == DropDuplicateColumns(t)
      t2 == IF fmt = "CBSE" THEN RenameCbse(t1) ELSE RenameCbssa(t1)
      t3 == TagExamType(t2, fmt)
      t4 == DropDuplicateColumns(t3)
  IN  ApplyFlag(t4)

PreparedRaises(t, fmt) ==
  LET t1 == DropDuplicateColumns(t)
      t2 == IF fmt = "CBSE" THEN RenameCbse(t1) ELSE RenameCbssa(t1)
      t4 == DropDuplicateColumns(TagExamType(t2, fmt))
  IN  \/ fmt = "CBSSA" /\ DropExamDateRaises(t1)
      \/ ApplyFlagRaises(t4)

\* cols: the columns selected from the CBSE table
cols(cbse) ==
  <<"student_id", "exam_type", "exam_date", "total_score", "flag", "step1_pass_prob">>
  \o (IF HasCol(cbse, "exam_round") THEN <<"exam_round">> ELSE << >>)
  \o (IF HasCol(cbse, "cbse_band") THEN <<"cbse_band">> ELSE << >>)

\* cbssa_cols: the columns selected from the CBSSA table
cbssa_cols(cbse, cbssa) ==
  IF HasCol(cbssa, "cbssa_band")
  THEN (IF ~HasCol(cbssa, "cbse_band")
        THEN SelectSeq(cols(cbse), LAMBDA c : c # "cbse_band")
        ELSE cols(cbse)) \o <<"cbssa_band">>
  ELSE cols(cbse)

\* the subsets with the band column renamed to "band"
cbse_subset(cbse) == Rename(Select(cbse, cols(cbse)), "cbse_band" :> "band")

cbssa_subset(cbse, cbssa) ==
  Rename(Select(cbssa, cbssa_cols(cbse, cbssa)), "cbssa_band" :> "band")

final_cols(a, b) ==
  <<"student_id", "exam_type", "exam_date", "total_score", "flag",
    "step1_pass_prob", "band">>
  \o (IF HasCol(a, "exam_round") \/ HasCol(b, "exam_round")
      THEN <<"exam_round">> ELSE << >>)

\* for col in final_cols: if col not in df.columns: df[col] = None
RECURSIVE AddMissingColumns(_, _, _)
AddMissingColumns(t, fc, i) ==
  IF i > Len(fc) THEN t
  ELSE AddMissingColumns(
         IF HasCol(t, fc[i]) THEN t
         ELSE SetCol(t, fc[i], [r \in 1..RowCount(t) |-> None]),
         fc, i + 1)

\* a subset at the moment of concatenation (lines 1014-1027)
Aligned(t, fc) == DropDuplicateColumns(Select(AddMissingColumns(t, fc, 1), fc))

static_cols(cbse, cbssa) ==
  <<"student_id", "exam_type", "exam_date">>
  \o (IF HasCol(cbse, "exam_round") \/ HasCol(cbssa, "exam_round")
      THEN <<"exam_round">> ELSE << >>)

exclude_cols(cbse, cbssa) ==
  SeqToSet(static_cols(cbse, cbssa)) \cup
  { "total_score", "flag", "cohort_year", "step1_pass_prob",
    "step1_ready", "in_low_pass_range", "cbse_band", "cbssa_band", "band",
    "exam_order", "month", "year_offset", "exam_year",
    "first_name", "last_name", "full_name" }

epc_cols(t, exclude) == SelectSeq(Columns(t), LAMBDA c : c \notin exclude)

\* the shared names in the column order of the CBSE table (no sorted())
shared_epc_cols_unsorted(cbse, cbssa) ==
  SelectSeq(epc_cols(cbse, exclude_cols(cbse, cbssa)),
            LAMBDA c : c \in SeqToSet(epc_cols(cbssa, exclude_cols(cbse, cbssa))))

shared_epc_cols(cbse, cbssa) ==
  sorted(SeqToSet(epc_cols(cbse, exclude_cols(cbse, cbssa)))
         \cap SeqToSet(epc_cols(cbssa, exclude_cols(cbse, cbssa))))

\* the columns of cbse_epc and of cbssa_epc
epc_frame_cols(cbse, cbssa) == static_cols(cbse, cbssa) \o shared_epc_cols(cbse, cbssa)

\* st.error / st.write of the missing-column check (lines 989-995)
MissingReport(fmt, t, wanted) ==
  IF Missing(t, wanted) = << >> THEN << >>
  ELSE << [kind |-> "missing_columns", table |-> fmt,
           missing |-> Missing(t, wanted), available |-> Columns(t)] >>

LoadFailed(exc, reports) ==
  [ok |-> FALSE, exam_records |-> << >>, epc_scores |-> << >>,
   errors |-> reports \o << [kind |-> "load_failed", table |-> exc,
                             missing |-> << >>, available |-> << >>] >>]

\* load_data() and its call site (lines 917-1094): the two tables, or the
\* errors shown when an exception reaches the call site
load_data(cbse0, cbssa0) ==
  LET cbse == Prepared(cbse0, "CBSE")
      cbssa == Prepared(cbssa0, "CBSSA")
      reports == MissingReport("CBSE", cbse, cols(cbse))
                 \o MissingReport("CBSSA", cbssa, cbssa_cols(cbse, cbssa))
      a == cbse_subset(cbse)
      b == cbssa_subset(cbse, cbssa)
      fc == final_cols(a, b)
      ec == epc_frame_cols(cbse, cbssa)
  IN  IF PreparedRaises(cbse0, "CBSE") \/ PreparedRaises(cbssa0, "CBSSA")
      THEN LoadFailed("exception", << >>)
      ELSE IF reports # << >>
      THEN LoadFailed("KeyError", reports)
      ELSE IF Missing(cbse, ec) # << >> \/ Missing(cbssa, ec) # << >>
      THEN LoadFailed("KeyError", << >>)
      ELSE [ok |-> TRUE,
            exam_records |-> Concat(Aligned(a, fc), Aligned(b, fc)),
            epc_scores |-> Concat(DropDuplicateColumns(Select(cbse, ec)),
                                  DropDuplicateColumns(Select(cbssa, ec))),
            errors |-> << >>]

(***************************************************************************)
(* Strings.  Ascii lists the characters of the model in the order of their *)
(* code points, which is the order Python compares strings in.             *)
(***************************************************************************)
Ascii ==
  << "\t", "\n", " ", ",", "-", ".", ":",
     "A", "B", "C", "D", "E", "F", "G", "H", "I", "J", "K", "L", "M",
     "N", "O", "P", "Q", "R", "S", "T", "U", "V", "W", "X", "Y", "Z",
     "a", "b", "c", "d", "e", "f", "g", "h", "i", "j", "k", "l", "m",
     "n", "o", "p", "q", "r", "s", "t", "u", "v", "w", "x", "y", "z" >>

CodePoint(c) == CHOOSE i \in DOMAIN Ascii : Ascii[i] = c

CharAt(x, i) == SubSeq(x, i, i)

\* the characters str.strip() and the regex class \s take for whitespace
IsSpace(c) == c \in {" ", "\t", "\n"}

RECURSIVE lstrip(_)
lstrip(x) ==
  IF Len(x) > 0 /\ IsSpace(CharAt(x, 1)) THEN lstrip(SubSeq(x, 2, Len(x))) ELSE x

RECURSIVE rstrip(_)
rstrip(x) ==
  IF Len(x) > 0 /\ IsSpace(CharAt(x, Len(x))) THEN rstrip(SubSeq(x, 1, Len(x) - 1))
  ELSE x

\* str.strip()
strip(x) == rstrip(lstrip(x))

\* x < y on Python strings
RECURSIVE StrLess(_, _)
StrLess(x, y) ==
  IF Len(x) = 0 THEN Len(y) > 0
  ELSE IF Len(y) = 0 THEN FALSE
  ELSE IF CharAt(x, 1) = CharAt(y, 1)
       THEN StrLess(SubSeq(x, 2, Len(x)), SubSeq(y, 2, Len(y)))
       ELSE CodePoint(CharAt(x, 1)) < CodePoint(CharAt(y, 1))

(***************************************************************************)
(* The roster (students_master.csv): student ids, names and cohort years.  *)
(***************************************************************************)
StudentIds == 1..MaxRows

cohort_year(id) == 2026 + (id % 2)

FirstNames == <<" Al", "Bo", "Cy ", "Di">>

LastNames == <<"Yu", "Ade ", "Yu", " Lee">>

first_name(id) == FirstNames[((id - 1) % Len(FirstNames)) + 1]

last_name(id) == LastNames[((id - 1) % Len(LastNames)) + 1]

\* the students table as pd.read_csv returns it
Roster ==
  << [name |-> "student_id", vals |-> [i \in StudentIds |-> Num(i)]],
     [name |-> "first_name", vals |-> [i \in StudentIds |-> Str(first_name(i))]],
     [name |-> "last_name", vals |-> [i \in StudentIds |-> Str(last_name(i))]],
     [name |-> "cohort_year", vals |-> [i \in StudentIds |-> Num(cohort_year(i))]] >>

(***************************************************************************)
(* load_data(): the question-level feedback table (cbse_qlf.csv).          *)
(***************************************************************************)
\* the alternatives of the pattern, in its order
Labels == <<"Diagnosis", "Foundation", "Gen Principle">>

StartsWith(x, p) == Len(x) >= Len(p) /\ SubSeq(x, 1, Len(p)) = p

\* the pattern matched at any case of the letters D, F, G and P
extract_category_nocase(c) ==
  IF c.k # "str" THEN NaN
  ELSE LET hits == SelectSeq(Labels \o <<"diagnosis", "foundation", "gen principle",
                                         "Gen principle">>,
                             LAMBDA l : StartsWith(lstrip(c.s), l))
       IN  IF hits = << >> THEN NaN
           ELSE Str(CHOOSE l \in SeqToSet(Labels) : Len(l) = Len(hits[1]))

\* .str.extract(r"^\s*(Diagnosis|Foundation|Gen Principle)", expand=False)
\* for one cell: the text of the group, NaN without a match
extract_category(c) ==
  IF c.k # "str" THEN NaN
  ELSE LET hits == SelectSeq(Labels, LAMBDA l : StartsWith(lstrip(c.s), l))
       IN  IF hits = << >> THEN NaN
           ELSE Str(SubSeq(lstrip(c.s), 1, Len(hits[1])))

\* lines 1079-1083
qlf_processing(qlf) ==
  DropDuplicateColumns(
    SetCol(SetCol(qlf, "exam_type", [i \in 1..RowCount(qlf) |-> Str("CBSE")]),
           "score_category",
           [i \in 1..RowCount(qlf) |->
              extract_category(Col(qlf, "content_area").vals[i])]))

(***************************************************************************)
(* Row-wise reading of a table, as the views do.                           *)
(***************************************************************************)
Rows(t) ==
  [i \in 1..RowCount(t) |-> [n \in SeqToSet(Columns(t)) |-> Col(t, n).vals[i]]]

\* df.merge(students[['student_id', 'cohort_year']], on='student_id')
MergeCohort(rows) ==
  LET known == SelectSeq(rows, LAMBDA r : r["student_id"].k = "num"
                                          /\ r["student_id"].v \in StudentIds)
  IN  [i \in DOMAIN known |->
         known[i] @@ ("cohort_year" :> Num(cohort_year(known[i]["student_id"].v)))]

\* df[df["student_id"] == id]
OfStudent(rows, id) == SelectSeq(rows, LAMBDA r : r["student_id"] = Num(id))

\* exam_type + " - " + exam_round, or exam_type alone without exam_round
exam_label(r) ==
  IF "exam_round" \in DOMAIN r
  THEN [type |-> r["exam_type"].s, round |-> r["exam_round"]]
  ELSE [type |-> r["exam_type"].s, round |-> None]

Count(rows, P(_)) == Len(SelectSeq(rows, P))

\* unparseable values coerced to zero instead of NaN
to_numeric_zero(c) == IF c.k = "num" THEN c ELSE Num(0)

\* pd.to_numeric(x, errors='coerce')
to_numeric(c) == IF c.k = "num" THEN c ELSE NaN

RECURSIVE Flatten(_)
Flatten(qq) == IF qq = << >> THEN << >> ELSE Head(qq) \o Flatten(Tail(qq))

\* df.melt(id_vars=..., value_vars=vv, var_name="EPC", value_name="Score")
melt(rows, vv) ==
  Flatten([j \in DOMAIN vv |->
             [i \in DOMAIN rows |->
                [student_id |-> rows[i]["student_id"],
                 exam_type |-> rows[i]["exam_type"],
                 exam_date |-> rows[i]["exam_date"],
                 EPC |-> vv[j],
                 Score |-> rows[i][vv[j]]]]])

\* epc_long["Score"] = pd.to_numeric(...); epc_long.dropna(subset=["Score"])
CoerceDropNA(long) ==
  SelectSeq([i \in DOMAIN long |-> [long[i] EXCEPT !.Score = to_numeric(@)]],
            LAMBDA r : ~IsNA(r.Score))

\* epc_long[epc_long["Score"] > 0]
PositiveOnly(long) == SelectSeq(long, LAMBDA r : r.Score.v > 0)

(***************************************************************************)
(* At-Risk Student Triage page.                                            *)
(***************************************************************************)
\* the lambda of the 'Expected Flag' column of the consistency check
ExpectedFlag(x) ==
  IF ScoreGE(x, 66) THEN "Green" ELSE IF ScoreGE(x, 62) THEN "Yellow" ELSE "Red"

RECURSIVE SortedInts(_)
SortedInts(S) ==
  IF S = {} THEN << >>
  ELSE LET m == CHOOSE x \in S : \A y \in S : x <= y
       IN  <<m>> \o SortedInts(S \ {m})

\* triage_data.loc[triage_data.groupby('student_id')['exam_date'].idxmax()]
MostRecent(rows) ==
  LET ids == SortedInts({rows[i]["student_id"].v : i \in DOMAIN rows})
      latest(id) ==
        CHOOSE i \in DOMAIN rows :
          /\ rows[i]["student_id"].v = id
          /\ \A j \in DOMAIN rows :
               rows[j]["student_id"].v = id =>
                 \/ rows[j]["exam_date"].v < rows[i]["exam_date"].v
                 \/ rows[j]["exam_date"].v = rows[i]["exam_date"].v /\ i <= j
  IN  [k \in DOMAIN ids |-> rows[latest(ids[k])]]

risk_order(flag) == IF flag = "Red" THEN 1 ELSE IF flag = "Yellow" THEN 2 ELSE 3

\* the key of sort_values(['risk_order', 'total_score']); NaN scores go last
TriageKey(r) ==
  risk_order(r["flag"].s) * (1000 * Scale)
  + (IF r["total_score"].k = "num" THEN r["total_score"].v ELSE 1000 * Scale - 1)

RECURSIVE InsertByKey(_, _)
InsertByKey(q, r) ==
  IF q = << >> THEN <<r>>
  ELSE IF TriageKey(q[Len(q)]) <= TriageKey(r) THEN Append(q, r)
  ELSE Append(InsertByKey(SubSeq(q, 1, Len(q) - 1), r), q[Len(q)])

RECURSIVE SortTriage(_)
SortTriage(rows) ==
  IF rows = << >> THEN << >>
  ELSE InsertByKey(SortTriage(SubSeq(rows, 1, Len(rows) - 1)), rows[Len(rows)])

available_cohorts(er) ==
  {r["cohort_year"].v : r \in SeqToSet(MergeCohort(Rows(er)))}

\* selected_cohort = 0 stands for "All Cohorts"
triage_data(er, selected_cohort, risk_levels, exam_filter) ==
  LET base == MergeCohort(Rows(er))
      d1 == IF selected_cohort = 0 THEN base
            ELSE SelectSeq(base, LAMBDA r : r["cohort_year"] = Num(selected_cohort))
      d2 == SelectSeq(d1, LAMBDA r : r["flag"].s \in risk_levels)
  IN  IF exam_filter = "Most Recent" THEN MostRecent(d2) ELSE d2

\* the summary metrics and the rows of the consistency check (head(10))
triage_view(er, selected_cohort, risk_levels, exam_filter) ==
  LET td == triage_data(er, selected_cohort, risk_levels, exam_filter)
      shown == SortTriage(td)
      first10 == SubSeq(shown, 1, IF Len(shown) < 10 THEN Len(shown) ELSE 10)
  IN  [page |-> "triage",
       sel |-> [cohort |-> selected_cohort, risk_levels |-> risk_levels,
                exam_filter |-> exam_filter],
       metrics |-> [total_at_risk |-> Len(td),
                    high_risk_count |-> Count(td, LAMBDA r : r["flag"] = Str("Red")),
                    moderate_risk_count |-> Count(td, LAMBDA r : r["flag"] = Str("Yellow"))],
       rows |-> [i \in DOMAIN first10 |->
                   [student_id |-> first10[i]["student_id"],
                    total_score |-> first10[i]["total_score"],
                    flag |-> first10[i]["flag"].s,
                    ExpectedFlag |-> ExpectedFlag(first10[i]["total_score"]),
                    FlagMatch |-> first10[i]["flag"].s
                                    = ExpectedFlag(first10[i]["total_score"])]]]

(***************************************************************************)
(* Cohort Analytics page, statistical view "% Above Threshold (>=66)".     *)
(***************************************************************************)
available_exams(er) == {exam_label(r) : r \in SeqToSet(MergeCohort(Rows(er)))}

cohort_filter(rows, selected_cohorts, selected_exams) ==
  SelectSeq(MergeCohort(rows),
            LAMBDA r : r["cohort_year"].v \in selected_cohorts
                       /\ exam_label(r) \in selected_exams)

\* total_score >= 66 and total_score < 66 on a pandas column: False for NaN
ScoreLT(score, threshold) == score.k = "num" /\ score.v < threshold * Scale

\* the content-area melt of the cohort page (lines 3063-3098)
cohort_epc_long(epc, selected_cohorts, selected_exams) ==
  LET ec == cohort_filter(Rows(epc), selected_cohorts, selected_exams)
      exclude_cols_epc == {"student_id", "exam_type", "exam_date", "cohort_year",
                           "exam_label", "exam_round"}
      epc_cols_ == SelectSeq(Columns(epc), LAMBDA c : c \notin exclude_cols_epc)
  IN  IF epc_cols_ # << >> /\ ec # << >>
      THEN CoerceDropNA(melt(ec, epc_cols_))
      ELSE << >>

cohort_view(er, epc, selected_cohorts, selected_exams) ==
  LET cd == cohort_filter(Rows(er), selected_cohorts, selected_exams)
  IN  [page |-> "cohort",
       sel |-> [cohorts |-> selected_cohorts, exams |-> selected_exams],
       metrics |->
         [n |-> Len(cd),
          above_threshold |-> Count(cd, LAMBDA r : ScoreGE(r["total_score"], 66)),
          ready |-> Count(cd, LAMBDA r : r["flag"] = Str("Green")),
          at_risk |-> Count(cd, LAMBDA r : r["flag"] = Str("Red")),
          intervention_needed |-> Count(cd, LAMBDA r : ScoreLT(r["total_score"], 66)),
          red_flags |-> Count(cd, LAMBDA r : r["flag"] = Str("Red")),
          yellow_flags |-> Count(cd, LAMBDA r : r["flag"] = Str("Yellow"))],
       rows |-> IF cd = << >> THEN << >>
                ELSE cohort_epc_long(epc, selected_cohorts, selected_exams)]

(***************************************************************************)
(* Individual Student Dashboard (content-area section) and PDF report.     *)
(***************************************************************************)
\* students["full_name"] = last_name.str.strip() + ", " + first_name.str.strip()
WithFullName(t) ==
  SetCol(t, "full_name",
         [i \in 1..RowCount(t) |->
            Str(strip(Col(t, "last_name").vals[i].s) \o ", "
                \o strip(Col(t, "first_name").vals[i].s))])

\* the order of sort_values(["full_name", "student_id"])
StudentLess(a, b) ==
  \/ StrLess(a["full_name"].s, b["full_name"].s)
  \/ a["full_name"] = b["full_name"] /\ a["student_id"].v < b["student_id"].v

RECURSIVE InsertStudent(_, _)
InsertStudent(q, r) ==
  IF q = << >> THEN <<r>>
  ELSE IF StudentLess(r, q[Len(q)])
       THEN Append(InsertStudent(SubSeq(q, 1, Len(q) - 1), r), q[Len(q)])
       ELSE Append(q, r)

RECURSIVE SortStudents(_)
SortStudents(rows) ==
  IF rows = << >> THEN << >>
  ELSE InsertStudent(SortStudents(SubSeq(rows, 1, Len(rows) - 1)), rows[Len(rows)])

\* the table of the given columns and rows
FromRows(names, rows) ==
  [c \in DOMAIN names |->
     [name |-> names[c], vals |-> [i \in DOMAIN rows |-> rows[i][names[c]]]]]

\* the students table after the student lookup of the page (lines 1271-1272)
student_lookup(t) ==
  FromRows(Columns(WithFullName(t)), SortStudents(Rows(WithFullName(t))))

\* the selection "All" of the exam selector
AllExams == [type |-> "All", date |-> NaN]

\* the (exam_type, exam_date) pairs of exam_label_map for a student
exam_choices(er, selected_id) ==
  {[type |-> r["exam_type"].s, date |-> r["exam_date"]] :
     r \in SeqToSet(OfStudent(Rows(er), selected_id))}

\* the rows of a table of one student and of the selected exam
student_slice(t, selected_id, selected_exam) ==
  LET all == OfStudent(Rows(t), selected_id)
  IN  IF selected_exam = AllExams THEN all
      ELSE SelectSeq(all, LAMBDA r : /\ r["exam_type"].s = selected_exam.type
                                     /\ r["exam_date"] = selected_exam.date)

student_epc(epc, selected_id, selected_exam) ==
  student_slice(epc, selected_id, selected_exam)

\* the stable ascending order of the indices of a sequence of integer keys
RECURSIVE InsertIdx(_, _, _)
InsertIdx(q, i, keys) ==
  IF q = << >> THEN <<i>>
  ELSE IF keys[i] < keys[q[Len(q)]]
       THEN Append(InsertIdx(SubSeq(q, 1, Len(q) - 1), i, keys), q[Len(q)])
       ELSE Append(q, i)

RECURSIVE ArgSort(_, _)
ArgSort(keys, n) ==
  IF n = 0 THEN << >> ELSE InsertIdx(ArgSort(keys, n - 1), n, keys)

argsort(keys) == ArgSort(keys, Len(keys))

\* the question rows of one student; an exam selection filters them by date
student_qlf(qlf, selected_id, selected_exam) ==
  LET all == OfStudent(Rows(qlf), selected_id)
  IN  IF selected_exam = AllExams THEN all
      ELSE SelectSeq(all, LAMBDA r : r["exam_date"] = selected_exam.date)

\* student_qlf_clean of the page (lines 1854-1858)
student_qlf_clean(rows) ==
  SelectSeq([i \in DOMAIN rows |->
               [rows[i] EXCEPT !["correct"] = to_numeric(@),
                               !["national_pct_correct"] = to_numeric(@)]],
            LAMBDA r : \A c \in {"correct", "physician_competency", "content_topic",
                                  "content_description"} : ~IsNA(r[c]))

\* sort_order: str(correct) + f"{100 - national_pct_correct:03.0f}"
question_sort_key(r) ==
  r["correct"].v * 1000
  + (IF r["national_pct_correct"].k = "num" THEN 100 - r["national_pct_correct"].v
     ELSE 999)

\* the question table of the page with the filters at "All Questions", "All"
\* and "All" (lines 1905-1958)
question_listing(rows) ==
  LET clean == student_qlf_clean(rows)
      order == argsort([i \in DOMAIN clean |-> question_sort_key(clean[i])])
  IN  [k \in DOMAIN order |-> clean[order[k]]]

\* the Exam History section: styled_exams is bound in the else branch only
\* (line 1476) and read after the if (line 1485)
exam_history_raises(student_exams) ==
  IF student_exams = << >> THEN "NameError" ELSE ""

student_content_cols(epc) ==
  LET id_vars == {"student_id", "exam_type", "exam_date"}
                 \cup (IF HasCol(epc, "exam_round") THEN {"exam_round"} ELSE {})
      exclude == id_vars \cup
                 { "total_score", "flag", "cohort_year", "step1_pass_prob",
                   "step1_ready", "in_low_pass_range", "band", "exam_order",
                   "month", "year_offset", "exam_year", "first_name", "last_name",
                   "full_name", "exam_label" }
  IN  SelectSeq(Columns(epc), LAMBDA c : c \notin exclude)

student_view(epc, selected_id, selected_exam) ==
  LET se == student_epc(epc, selected_id, selected_exam)
      cc == student_content_cols(epc)
  IN  [page |-> "student",
       sel |-> [student |-> selected_id, exam |-> selected_exam],
       metrics |-> [content_areas |-> Len(cc)],
       rows |-> IF se # << >> /\ cc # << >>
                THEN PositiveOnly(CoerceDropNA(melt(se, cc)))
                ELSE << >>]

\* generate_student_pdf_report: every column but the three id_vars is melted
pdf_value_vars(epc) ==
  SelectSeq(Columns(epc), LAMBDA c : c \notin {"student_id", "exam_type", "exam_date"})

pdf_view(epc, selected_id) ==
  LET se == OfStudent(Rows(epc), selected_id)
  IN  [page |-> "pdf",
       sel |-> [student |-> selected_id, exam |-> AllExams],
       metrics |-> [content_areas |-> Len(pdf_value_vars(epc))],
       rows |-> IF se # << >> THEN CoerceDropNA(melt(se, pdf_value_vars(epc)))
                ELSE << >>]

(***************************************************************************)
(* generate_student_pdf_report.  A pass probability is held in hundredths. *)
(***************************************************************************)
\* the rows of the content-area table of the report
TopN == 8

\* df.sort_values("exam_date"): ascending and stable, missing dates last
sort_by_date(rows) ==
  LET order == argsort([i \in DOMAIN rows |->
                          IF rows[i]["exam_date"].k = "date"
                          THEN rows[i]["exam_date"].v ELSE 1000000])
  IN  [k \in DOMAIN order |-> rows[order[k]]]

\* a > b on two cells: False when one of them is missing
ScoreGT(a, b) == a.k = "num" /\ b.k = "num" /\ a.v > b.v

\* the last exam compared with the one before it
score_trend_adjacent(student_exams) ==
  LET byDate == sort_by_date(student_exams)
  IN  IF Len(student_exams) > 1
         /\ ScoreGT(byDate[Len(byDate)]["total_score"],
                    byDate[Len(byDate) - 1]["total_score"])
      THEN "Improving" ELSE "Stable"

\* score_trend (line 257)
score_trend(student_exams) ==
  LET byDate == sort_by_date(student_exams)
  IN  IF Len(student_exams) > 1
         /\ ScoreGT(byDate[Len(byDate)]["total_score"], byDate[1]["total_score"])
      THEN "Improving" ELSE "Stable"

\* the recommendation of a content-area row (lines 339-345)
recommendation(score) ==
  IF score.v < 50 * Scale THEN "High Priority"
  ELSE IF score.v < 60 * Scale THEN "Medium Priority"
  ELSE "Low Priority"

\* epc_long of the report (lines 330-332 and 446-448)
pdf_epc_long(student_epc_rows, value_vars) ==
  IF student_epc_rows = << >> THEN << >>
  ELSE CoerceDropNA(melt(student_epc_rows, value_vars))

head(q, n) == SubSeq(q, 1, IF Len(q) < n THEN Len(q) ELSE n)

\* epc_long.sort_values("Score")
sort_by_score(long) ==
  LET order == argsort([i \in DOMAIN long |-> long[i].Score.v])
  IN  [k \in DOMAIN order |-> long[order[k]]]

\* the first rows of epc_long as they come, without the sort
weakest_epcs_unsorted(long) ==
  LET top == head(long, TopN)
  IN  [k \in DOMAIN top |->
         [EPC |-> top[k].EPC, Score |-> top[k].Score,
          recommendation |-> recommendation(top[k].Score)]]

\* the rows of the content-area table (lines 335-351)
weakest_epcs(long) ==
  LET top == head(sort_by_score(long), TopN)
  IN  [k \in DOMAIN top |->
         [EPC |-> top[k].EPC, Score |-> top[k].Score,
          recommendation |-> recommendation(top[k].Score)]]

\* student_qlf after line 374: correct made numeric, in place
qlf_after_call(student_qlf_rows) ==
  [i \in DOMAIN student_qlf_rows |->
     [student_qlf_rows[i] EXCEPT !["correct"] = to_numeric(@)]]

\* the rows without a category kept and put under the first label
pdf_qlf_clean_fillna(student_qlf_rows) ==
  LET kept == SelectSeq(qlf_after_call(student_qlf_rows),
                        LAMBDA r : ~IsNA(r["correct"]))
  IN  [i \in DOMAIN kept |->
         [kept[i] EXCEPT !["score_category"] = IF IsNA(@) THEN Str(Labels[1]) ELSE @]]

\* student_qlf_clean of the report (lines 375-376)
pdf_qlf_clean(student_qlf_rows) ==
  SelectSeq(qlf_after_call(student_qlf_rows),
            LAMBDA r : ~IsNA(r["correct"]) /\ ~IsNA(r["score_category"]))

RECURSIVE SumCorrect(_)
SumCorrect(rows) ==
  IF rows = << >> THEN 0 ELSE Head(rows)["correct"].v + SumCorrect(Tail(rows))

\* the rows of one group of groupby("score_category")
category_rows(clean, l) ==
  SelectSeq(clean, LAMBDA r : r["score_category"] = Str(l))

\* pct_correct of row a below that of row b: 100 * sum / count
PctLess(a, b) == a.sum * b.count < b.sum * a.count

RECURSIVE InsertByPct(_, _)
InsertByPct(q, r) ==
  IF q = << >> THEN <<r>>
  ELSE IF PctLess(r, q[Len(q)])
       THEN Append(InsertByPct(SubSeq(q, 1, Len(q) - 1), r), q[Len(q)])
       ELSE Append(q, r)

RECURSIVE SortByPct(_)
SortByPct(q) ==
  IF q = << >> THEN << >>
  ELSE InsertByPct(SortByPct(SubSeq(q, 1, Len(q) - 1)), q[Len(q)])

\* the focus area of a category row (lines 385-391)
focus(r) ==
  IF 100 * r.sum < 60 * r.count THEN "Immediate Review Needed"
  ELSE IF 100 * r.sum < 75 * r.count THEN "Additional Practice Recommended"
  ELSE "Continue Current Approach"

\* qlf_summary (lines 378-399): one row per category, lowest percentage first
qlf_summary(student_qlf_rows) ==
  LET clean == pdf_qlf_clean(student_qlf_rows)
      groups == SelectSeq(Labels, LAMBDA l : category_rows(clean, l) # << >>)
      agg == [g \in DOMAIN groups |->
                [category |-> groups[g],
                 count |-> Len(category_rows(clean, groups[g])),
                 sum |-> SumCorrect(category_rows(clean, groups[g]))]]
      ordered == SortByPct(agg)
  IN  [g \in DOMAIN ordered |->
         [category |-> ordered[g].category, count |-> ordered[g].count,
          sum |-> ordered[g].sum, focus |-> focus(ordered[g])]]

\* pass_prob < bound on a cell that is a number
ProbLT(c, hundredths) == c.k = "num" /\ c.v < hundredths

\* the points of the latest flag with Yellow treated as any other flag
flag_points_two_way(latest_exam) ==
  IF latest_exam["flag"] = Str("Red")
  THEN <<"Immediate Intervention", "Step 1 Timing">>
  ELSE <<"Maintain Excellence">>

\* the points of the latest flag (lines 428-435)
flag_points(latest_exam) ==
  IF latest_exam["flag"] = Str("Red")
  THEN <<"Immediate Intervention", "Step 1 Timing">>
  ELSE IF latest_exam["flag"] = Str("Yellow")
  THEN <<"Targeted Support", "Progress Monitoring">>
  ELSE <<"Maintain Excellence">>

\* the point of the latest pass probability (lines 437-442)
pass_prob_points(latest_exam) ==
  IF "step1_pass_prob" \in DOMAIN latest_exam /\ ~IsNA(latest_exam["step1_pass_prob"])
  THEN (IF ProbLT(latest_exam["step1_pass_prob"], 60)
        THEN <<"Step 1 Risk Assessment">>
        ELSE IF ProbLT(latest_exam["step1_pass_prob"], 80)
        THEN <<"Step 1 Preparation Strategy">>
        ELSE << >>)
  ELSE << >>

closing_points ==
  <<"Academic Plan Review", "Support Resources", "Goal Setting", "Wellness Check">>

\* talking_points (lines 421-460)
talking_points(student_exams, long) ==
  (IF student_exams = << >> THEN << >>
   ELSE flag_points(sort_by_date(student_exams)[Len(student_exams)])
        \o pass_prob_points(sort_by_date(student_exams)[Len(student_exams)]))
  \o (IF long = << >> THEN << >> ELSE <<"Content Priority">>)
  \o closing_points

NoReport ==
  [score_trend |-> "", weakest_epcs |-> << >>, qlf_summary |-> << >>,
   talking_points |-> << >>]

\* what the report shows, section by section
generate_student_pdf_report(student_exams, student_epc_rows, value_vars, student_qlf_rows) ==
  [score_trend |-> IF student_exams = << >> THEN "" ELSE score_trend(student_exams),
   weakest_epcs |-> weakest_epcs(pdf_epc_long(student_epc_rows, value_vars)),
   qlf_summary |-> qlf_summary(student_qlf_rows),
   talking_points |-> talking_points(student_exams,
                                     pdf_epc_long(student_epc_rows, value_vars))]

\* the four table arguments of the call (lines 1337-1344)
report_arguments(t_students, er, epc, qlf, selected_id) ==
  [student_data |-> OfStudent(Rows(t_students), selected_id),
   student_exams |-> OfStudent(Rows(er), selected_id),
   student_epc |-> OfStudent(Rows(epc), selected_id),
   student_qlf |-> OfStudent(Rows(qlf), selected_id)]

\* the same four objects when the call has returned
arguments_after_call(args) ==
  [args EXCEPT !.student_qlf = qlf_after_call(@)]

NoArguments ==
  [student_data |-> << >>, student_exams |-> << >>, student_epc |-> << >>,
   student_qlf |-> << >>]

(***************************************************************************)
(* The event log (experiment_analytics.json) and the session state.        *)
(* A JSON value is a cell ("str", "num" with v a whole number, "nan",      *)
(* "none") or one of                                                       *)
(*   "float" a float (v, in hundredths),                                   *)
(*   "bool"  a truth value (b),                                            *)
(*   "np"    a numpy scalar, val the Python value its item() returns,      *)
(*   "list"  a list (items),                                               *)
(*   "dict"  a dict (items, a sequence of [key, val] in insertion order).  *)
(* The file is the string of its characters.  The clock runs in whole      *)
(* seconds and moves on by one with every entry that is written.           *)
(***************************************************************************)
Float(h) == [k |-> "float", v |-> h]
Bool(b) == [k |-> "bool", b |-> b]
Np(x) == [k |-> "np", val |-> x]
List(xs) == [k |-> "list", items |-> xs]
Dict(kvs) == [k |-> "dict", items |-> kvs]
Item(key, val) == [key |-> key, val |-> val]

\* st.session_state: a dict from keys to values
NoState == [x \in {} |-> None]
has(d, key) == key \in DOMAIN d
get(d, key, default) == IF has(d, key) THEN d[key] ELSE default
set(d, key, val) == [x \in DOMAIN d \cup {key} |-> IF x = key THEN val ELSE d[x]]

\* the truth value Python gives a value in `if x:` and `x or y`
truthy(x) ==
  CASE x.k = "none" -> FALSE
    [] x.k = "str" -> x.s # ""
    [] x.k = "dict" -> x.items # << >>
    [] x.k = "list" -> x.items # << >>
    [] x.k = "bool" -> x.b
    [] OTHER -> TRUE

RECURSIVE make_json_serializable(_)
RECURSIVE serializable_items(_)
RECURSIVE serializable_list(_)
serializable_items(kvs) ==
  IF kvs = << >> THEN << >>
  ELSE <<Item(Head(kvs).key, make_json_serializable(Head(kvs).val))>>
         \o serializable_items(Tail(kvs))

serializable_list(xs) ==
  IF xs = << >> THEN << >>
  ELSE <<make_json_serializable(Head(xs))>> \o serializable_list(Tail(xs))

make_json_serializable(obj) ==
  CASE obj.k = "np" -> obj.val
    [] obj.k = "dict" -> Dict(serializable_items(obj.items))
    [] obj.k = "list" -> List(serializable_list(obj.items))
    [] OTHER -> obj

Digits == "0123456789"

\* str() of a natural number
RECURSIVE ToStr(_)
ToStr(n) ==
  IF n < 10 THEN CharAt(Digits, n + 1)
  ELSE ToStr(n \div 10) \o CharAt(Digits, (n % 10) + 1)

\* repr() of a float of h hundredths
float_repr(h) ==
  ToStr(h \div 100) \o "."
    \o (IF h % 10 = 0 THEN ToStr((h % 100) \div 10)
        ELSE ToStr((h % 100) \div 10) \o ToStr(h % 10))

\* json.dumps of one character of a string
escape(c) ==
  IF c = "\"" THEN "\\\""
  ELSE IF c = "\\" THEN "\\\\"
  ELSE IF c = "\n" THEN "\\n"
  ELSE IF c = "\t" THEN "\\t"
  ELSE c

RECURSIVE escaped(_)
escaped(x) ==
  IF Len(x) = 0 THEN "" ELSE escape(CharAt(x, 1)) \o escaped(SubSeq(x, 2, Len(x)))

quoted(x) == "\"" \o escaped(x) \o "\""

\* json.dumps with its default separators and allow_nan
RECURSIVE dumps(_)
RECURSIVE dumps_items(_)
RECURSIVE dumps_list(_)
dumps_items(kvs) ==
  IF kvs = << >> THEN ""
  ELSE quoted(Head(kvs).key) \o ": " \o dumps(Head(kvs).val)
         \o (IF Len(kvs) > 1 THEN ", " ELSE "") \o dumps_items(Tail(kvs))

dumps_list(xs) ==
  IF xs = << >> THEN ""
  ELSE dumps(Head(xs)) \o (IF Len(xs) > 1 THEN ", " ELSE "") \o dumps_list(Tail(xs))

dumps(x) ==
  CASE x.k = "str" -> quoted(x.s)
    [] x.k = "num" -> ToStr(x.v)
    [] x.k = "float" -> float_repr(x.v)
    [] x.k = "nan" -> "NaN"
    [] x.k = "none" -> "null"
    [] x.k = "bool" -> IF x.b THEN "true" ELSE "false"
    [] x.k = "list" -> "[" \o dumps_list(x.items) \o "]"
    [] x.k = "dict" -> "{" \o dumps_items(x.items) \o "}"

\* time.time()
time(now) == Float(now * 100)

\* datetime.datetime.now().isoformat() in the first minute of the epoch, UTC
isoformat(now) ==
  "1970-01-01T00:00:" \o (IF now < 10 THEN "0" ELSE "") \o ToStr(now)

\* round(x, 1) of a whole number of seconds
round1(seconds) == Float(seconds * 100)
\* round(seconds / 60, 2): 100 * seconds / 60 is never half-way between two
\* whole numbers
round_minutes(seconds) == Float((10 * seconds + 3) \div 6)

log_entry(state, now, user_email, action, details) ==
  Dict(<< Item("timestamp", time(now)),
          Item("datetime", Str(isoformat(now))),
          Item("session_id", get(state, "session_id", Str("unknown"))),
          Item("user_email", Str(user_email)),
          Item("action", Str(action)),
          Item("details",
               make_json_serializable(IF truthy(details) THEN details ELSE Dict(<< >>))),
          Item("page_mode", get(state, "current_mode", Str("unknown"))) >>)

\* open(path, "w") followed by f.write(text)
write_truncating(content, text) == text

\* open(path, "a") followed by f.write(text)
write_appending(content, text) == content \o text

\* what the script holds while it runs: the file, the clock and the calls of
\* log_user_action it has made in this step
World(file, now) == [file |-> file, clock |-> now, calls |-> << >>]

log_user_action(w, state, user_email, action, details) ==
  LET call == [user_email |-> user_email, action |-> action, details |-> details,
               state |-> state, now |-> w.clock]
  IN  IF user_email # ""
      THEN [file |-> write_appending(
                       w.file,
                       dumps(log_entry(state, w.clock, user_email, action, details))
                         \o "\n"),
            clock |-> w.clock + 1,
            calls |-> Append(w.calls, call)]
      ELSE [w EXCEPT !.calls = Append(w.calls, call)]

\* the duration payload of session_activity and session_end
session_details(state, now) ==
  Dict(<< Item("session_id", state["session_id"]),
          Item("session_duration_seconds",
               round1(now - state["session_start"].v \div 100)),
          Item("session_duration_minutes",
               round_minutes(now - state["session_start"].v \div 100)) >>)

current_user(state) == get(state, "username", None)

log_session_activity(w, state) ==
  IF truthy(current_user(state)) /\ has(state, "session_start")
  THEN log_user_action(w, state, current_user(state).s, "session_activity",
                       session_details(state, w.clock))
  ELSE w

\* initialize_session() with uuid the value of uuid.uuid4()
initialize_session(w, state, uuid) ==
  IF ~has(state, "session_id")
  THEN LET started == set(set(state, "session_id", Str(uuid)),
                          "session_start", time(w.clock))
       IN  [state |-> started,
            world |-> IF truthy(current_user(started))
                      THEN log_user_action(
                             w, started, current_user(started).s, "session_start",
                             Dict(<< Item("session_id", started["session_id"]),
                                     Item("start_time", started["session_start"]) >>))
                      ELSE w]
  ELSE [state |-> state, world |-> w]

\* the Logout button
logout(w, state) ==
  [state |-> NoState,
   world |-> IF truthy(current_user(state)) /\ has(state, "session_start")
             THEN log_user_action(w, state, current_user(state).s, "session_end",
                                  session_details(state, w.clock))
             ELSE w]

log_page_view(w, state, user_email, mode) ==
  LET moved == set(state, "current_mode", Str(mode))
  IN  [state |-> moved,
       world |-> log_user_action(w, moved, user_email, "page_view",
                                 Dict(<<Item("mode", Str(mode))>>))]

\* the lines a reader of the file gets (for line in f)
RECURSIVE Split(_, _)
Split(text, from) ==
  IF from > Len(text) THEN << >>
  ELSE LET ends == {i \in from..Len(text) : CharAt(text, i) = "\n"}
       IN  IF ends = {} THEN <<SubSeq(text, from, Len(text))>>
           ELSE LET to == CHOOSE i \in ends : \A j \in ends : i <= j
                IN  <<SubSeq(text, from, to)>> \o Split(text, to + 1)

readlines(text) == Split(text, 1)

(***************************************************************************)
(* The account files (users.csv, reset_tokens.csv).  A file is a record    *)
(* [exists, rows]; a row of a file gives the text of each of its cells.    *)
(* pd.read_csv types a column by its texts and DataFrame.to_csv writes     *)
(* the cells back as text.  A frame is a sequence of rows of cells.        *)
(***************************************************************************)
NoFile == [exists |-> FALSE, rows |-> << >>]
File(rows) == [exists |-> TRUE, rows |-> rows]

\* the texts pd.read_csv reads as a missing value
NAStrings ==
  { "", "#N/A", "#N/A N/A", "#NA", "-1.#IND", "-1.#QNAN", "-NaN", "-nan",
    "1.#IND", "1.#QNAN", "<NA>", "N/A", "NA", "NULL", "NaN", "n/a", "nan", "null" }

IsDigit(c) == \E i \in 1..10 : CharAt(Digits, i) = c
DigitValue(c) == (CHOOSE i \in 1..10 : CharAt(Digits, i) = c) - 1

\* a text of digits only
IsInt(x) == Len(x) > 0 /\ \A i \in 1..Len(x) : IsDigit(CharAt(x, i))

RECURSIVE ToInt(_)
ToInt(x) ==
  IF Len(x) = 0 THEN 0
  ELSE 10 * ToInt(SubSeq(x, 1, Len(x) - 1)) + DigitValue(CharAt(x, Len(x)))

\* where the decimal point of a text stands, 0 if it has none
PointAt(x) ==
  IF \E i \in 1..Len(x) : CharAt(x, i) = "."
  THEN CHOOSE i \in 1..Len(x) : CharAt(x, i) = "." ELSE 0

\* a text of digits, a point and one or two digits
IsFloat(x) ==
  /\ PointAt(x) > 1
  /\ Len(x) - PointAt(x) \in {1, 2}
  /\ IsInt(SubSeq(x, 1, PointAt(x) - 1))
  /\ IsInt(SubSeq(x, PointAt(x) + 1, Len(x)))

\* the hundredths of a text that is a number
ToHundredths(x) ==
  IF IsInt(x) THEN 100 * ToInt(x)
  ELSE 100 * ToInt(SubSeq(x, 1, PointAt(x) - 1))
       + (IF Len(x) - PointAt(x) = 1 THEN 10 ELSE 1)
           * ToInt(SubSeq(x, PointAt(x) + 1, Len(x)))

\* the dtype pd.read_csv gives a column with these texts
column_dtype(texts) ==
  LET present == {i \in DOMAIN texts : texts[i] \notin NAStrings}
  IN  IF \A i \in present : IsInt(texts[i]) \/ IsFloat(texts[i])
      THEN IF texts # << >> /\ present = DOMAIN texts
                /\ \A i \in present : IsInt(texts[i])
           THEN "int64"
           ELSE IF texts = << >> THEN "object" ELSE "float64"
      ELSE "object"

read_cell(dtype, text) ==
  IF text \in NAStrings THEN NaN
  ELSE IF dtype = "int64" THEN Num(ToInt(text))
  ELSE IF dtype = "float64" THEN Float(ToHundredths(text))
  ELSE Str(text)

\* pd.read_csv(path) of a file with the columns fields
read_csv(file, fields) ==
  LET texts(f) == [i \in DOMAIN file.rows |-> file.rows[i][f]]
  IN  [i \in DOMAIN file.rows |->
         [f \in fields |-> read_cell(column_dtype(texts(f)), file.rows[i][f])]]

\* the text to_csv writes for a cell
cell_text(c) ==
  CASE c.k = "str" -> c.s
    [] c.k = "num" -> ToStr(c.v)
    [] c.k = "float" -> float_repr(c.v)
    [] c.k = "nan" -> ""

\* df.to_csv(path, index=False)
to_csv(frame, fields) ==
  File([i \in DOMAIN frame |-> [f \in fields |-> cell_text(frame[i][f])]])

\* df.to_csv(path, index=False) on a path that holds file: the file is
\* opened for writing and what it held goes
merged_with(file, frame, fields) ==
  File(file.rows
         \o SelectSeq(to_csv(frame, fields).rows,
                      LAMBDA r : \A i \in DOMAIN file.rows : file.rows[i] # r))

overwrite(file, frame, fields) == to_csv(frame, fields)

\* a == b on two cells: numbers by value, strings by text, NaN never
cell_eq(a, b) ==
  CASE a.k = "str" /\ b.k = "str" -> a.s = b.s
    [] a.k \in {"num", "float"} /\ b.k \in {"num", "float"} ->
         (IF a.k = "num" THEN 100 * a.v ELSE a.v)
           = (IF b.k = "num" THEN 100 * b.v ELSE b.v)
    [] OTHER -> FALSE

\* value in df[column].values
in_values(frame, column, value) ==
  \E i \in DOMAIN frame : cell_eq(frame[i][column], value)

UserFields ==
  {"email", "first_name", "last_name", "name", "title", "medical_school", "password"}
TokenFields == {"email", "token", "timestamp"}

\* stauth.Hasher.hash: a bcrypt hash of the password
hash(password) == "$2b$12$" \o password

\* bcrypt.checkpw(password, hashed)
checkpw(password, hashed) == hashed.k = "str" /\ hashed.s = hash(password)

\* what a handler leaves: the two files, the issued tokens, the messages shown
Outcome(users, tokens, shown) == [users |-> users, tokens |-> tokens, shown |-> shown]

\* what is typed into the registration form
Form(new_email, new_first_name, new_last_name, new_title, new_password, nda) ==
  [email |-> new_email, first_name |-> new_first_name,
   last_name |-> new_last_name, title |-> new_title,
   medical_school |-> "WSCM", password |-> new_password, nda_agreed |-> nda]

\* the row a registration adds
new_user(form) ==
  [email |-> Str(form.email), first_name |-> Str(form.first_name),
   last_name |-> Str(form.last_name),
   name |-> Str(strip(form.first_name \o " " \o form.last_name)),
   title |-> Str(form.title), medical_school |-> Str(form.medical_school),
   password |-> Str(hash(form.password))]

\* the Register button with the form as filled in
register(users, tokens, form) ==
  IF ~form.nda_agreed
  THEN Outcome(users, tokens, <<"You must agree to the research terms to register.">>)
  ELSE IF "" \in {form.email, form.first_name, form.last_name, form.password}
  THEN Outcome(users, tokens, <<"Please fill in all required fields.">>)
  ELSE LET users_df == IF users.exists THEN read_csv(users, UserFields) ELSE << >>
       IN  IF in_values(users_df, "email", Str(form.email))
           THEN Outcome(users, tokens, <<"Email already registered.">>)
           ELSE Outcome(overwrite(users, Append(users_df, new_user(form)), UserFields),
                        tokens, <<"Account created! Please login.">>)

\* a reset link is good for this many seconds
TokenLifetime == 3600

\* timestamp > one_hour_ago on a cell of the timestamp column
newer_than(c, one_hour_ago) ==
  /\ c.k \in {"num", "float"}
  /\ (IF c.k = "num" THEN 100 * c.v ELSE c.v) > 100 * one_hour_ago

\* pd.read_csv(token_file) if the file exists, else an empty frame
tokens_frame(tokens) == IF tokens.exists THEN read_csv(tokens, TokenFields) ELSE << >>

\* the frame save_reset_token writes, from the frame it has read
with_new_token(tokens_df, email, token, current_time) ==
  LET others == SelectSeq(tokens_df, LAMBDA r : ~cell_eq(r["email"], Str(email)))
      added == Append(others, [email |-> Str(email), token |-> Str(token),
                               timestamp |-> time(current_time)])
  IN  SelectSeq(added,
                LAMBDA r : newer_than(r["timestamp"], current_time - TokenLifetime))

save_reset_token(tokens, email, token, current_time) ==
  overwrite(tokens, with_new_token(tokens_frame(tokens), email, token, current_time),
            TokenFields)

\* the rows verify_reset_token finds
valid_token(tokens, token, current_time) ==
  SelectSeq(read_csv(tokens, TokenFields),
            LAMBDA r : /\ cell_eq(r["token"], Str(token))
                       /\ newer_than(r["timestamp"], current_time - TokenLifetime))

verify_reset_token(tokens, token, current_time) ==
  IF ~tokens.exists THEN None
  ELSE IF valid_token(tokens, token, current_time) # << >>
       THEN valid_token(tokens, token, current_time)[1]["email"]
       ELSE None

\* the frame clear_reset_token writes, from the frame it has read
without_token(tokens_df, token) ==
  SelectSeq(tokens_df, LAMBDA r : ~cell_eq(r["token"], Str(token)))

clear_reset_token(tokens, token) ==
  IF tokens.exists
  THEN overwrite(tokens, without_token(read_csv(tokens, TokenFields), token),
                 TokenFields)
  ELSE tokens

\* how the SMTP steps of send_reset_email end: "sent", or the step that raised
SmtpSteps == <<"connect", "starttls", "login", "send_message">>

\* send_reset_email: the value returned and what st.error shows
send_reset_email(smtp) ==
  IF smtp = "sent" THEN [returns |-> TRUE, shown |-> << >>]
  ELSE [returns |-> FALSE, shown |-> <<"Failed to send email: " \o smtp>>]

\* the Send Reset Email button; email_configured says that the sender is not
\* the placeholder address
request_reset(users, tokens, reset_email, token, current_time, email_configured, smtp) ==
  IF reset_email = "" THEN Outcome(users, tokens, <<"Please enter an email address.">>)
  ELSE IF ~users.exists THEN Outcome(users, tokens, <<"User database not found.">>)
  ELSE IF in_values(read_csv(users, UserFields), "email", Str(reset_email))
  THEN LET saved == save_reset_token(tokens, reset_email, token, current_time)
           mail == send_reset_email(smtp)
       IN  IF email_configured
           THEN IF mail.returns
                THEN Outcome(users, saved,
                             <<"Reset email sent! Check your inbox.",
                               "The reset link will expire in 1 hour.">>)
                ELSE Outcome(users, saved,
                             mail.shown
                               \o <<"Failed to send email. Contact administrator.">>)
           ELSE Outcome(users, saved,
                        <<"Email not configured. Contact administrator.",
                          "Admin: Use token " \o token \o " for manual reset.">>)
  ELSE Outcome(users, tokens, <<"If that email exists, a reset link has been sent.">>)

\* users_df.loc[users_df["email"] == token_email, "password"] = hashed_pw
with_password(users_df, token_email, hashed_pw) ==
  [i \in DOMAIN users_df |->
     IF cell_eq(users_df[i]["email"], token_email)
     THEN [users_df[i] EXCEPT !["password"] = Str(hashed_pw)]
     ELSE users_df[i]]

\* the page of a reset link with the Update Password button pressed
update_password(users, tokens, reset_token, new_password, confirm_password, now) ==
  LET token_email == verify_reset_token(tokens, reset_token, now)
  IN  IF ~truthy(token_email)
      THEN Outcome(users, tokens,
                   <<"Invalid or expired reset link.",
                     "Please request a new password reset.">>)
      ELSE IF new_password = "" \/ new_password # confirm_password
      THEN Outcome(users, tokens,
                   <<"Valid reset link!", "Passwords don't match or are empty.">>)
      ELSE IF Len(new_password) < 6
      THEN Outcome(users, tokens,
                   <<"Valid reset link!", "Password must be at least 6 characters long.">>)
      ELSE IF ~users.exists
      THEN Outcome(users, tokens, <<"Valid reset link!", "User database not found.">>)
      ELSE Outcome(overwrite(users,
                             with_password(read_csv(users, UserFields), token_email,
                                           hash(new_password)),
                             UserFields),
                   clear_reset_token(tokens, reset_token),
                   <<"Valid reset link!", "Password updated successfully!",
                     "Please log in with your new password.">>)

\* the accounts of a user and of an administrator
StdUsers ==
  to_csv(<<new_user(Form("a@x.org", "Al", "Yu", "Dean", "secret1", TRUE)),
           new_user(Form("kmcallister@nbme.org", "Kim", "Mc", "Dean", "secret1", TRUE))>>,
         UserFields)

\* the Login button of the sidebar form
login(w, state, users, login_email, login_password) ==
  LET refused(message) == [state |-> state, world |-> w, shown |-> <<message>>]
  IN  IF login_email = "" \/ login_password = ""
      THEN refused("Please enter both email and password")
      ELSE IF ~users.exists THEN refused("No users found")
      ELSE LET users_df == read_csv(users, UserFields)
               user_row == SelectSeq(users_df,
                                     LAMBDA r : cell_eq(r["email"], Str(login_email)))[1]
               signed == set(set(set(state, "authentication_status", Bool(TRUE)),
                                 "username", Str(login_email)),
                             "name", user_row["name"])
           IN  IF ~in_values(users_df, "email", Str(login_email))
               THEN refused("Email not found")
               ELSE IF ~checkpw(login_password, user_row["password"])
               THEN refused("Invalid password")
               ELSE [state |-> signed,
                     world |-> log_session_activity(
                                 log_user_action(w, signed, login_email, "login_success",
                                                 Dict(<<Item("name", signed["name"])>>)),
                                 signed),
                     shown |-> <<"Login successful!">>]

\* a script that goes on without asking who is there
gate_open(state) == TRUE

\* the check before the dashboard: the run goes on past st.stop()
gate(state) == truthy(get(state, "authentication_status", Bool(FALSE)))

ADMIN_EMAILS ==
  {"venkkandadai@gmail.com", "medschool.dashboard.prototype@gmail.com",
   "kmcallister@nbme.org"}

\* is_admin for a dashboard that takes every user for an administrator
anyone(user_email) == TRUE

is_admin(user_email) == user_email \in ADMIN_EMAILS

\* the entries of the navigation box, without the pictograms of their labels
mode_options(state) ==
  {"Home", "Individual Student Dashboard", "Cohort Analytics",
   "At-Risk Student Triage", "CLA Analytics"}
    \cup (IF truthy(current_user(state)) /\ is_admin(current_user(state).s)
          THEN {"Analytics"} ELSE {})

\* the branch of the page chain the script takes
page_branch(page, state) ==
  CASE page = "Home" -> "home"
    [] page = "Individual Student Dashboard" -> "student"
    [] page = "At-Risk Student Triage" -> "triage"
    [] page = "Cohort Analytics" -> "cohort"
    [] page = "CLA Analytics" -> "cla"
    [] page = "Analytics" /\ is_admin(current_user(state).s) -> "analytics"
    [] OTHER -> "access_denied"

(***************************************************************************)
(* The CSV inputs.  A layout says which columns a summary file has and in  *)
(* which order; the cells of a column are told apart by their values:      *)
(* in cbse_summary.csv   cbse_date = day 10+row, exam_date = day 30+row,   *)
(* in cbssa_summary.csv  cbssa_date = day 20+row, exam_date = day 10+row   *)
(* (the CBSE date), and a total_score column already in a file holds       *)
(* 40 points, not the exam's own score.                                    *)
(***************************************************************************)
ContentNames == {"Anatomy", "Biochem", "Cardio"}

ExtraNames == ContentNames \cup {"cohort_year"}

Reverse(q) == [i \in DOMAIN q |-> q[Len(q) + 1 - i]]

Opt(b, n) == IF b THEN <<n>> ELSE << >>

Pair(variant, own, other) ==
  CASE variant = "own" -> <<own>>
    [] variant = "own_first" -> <<own, other>>
    [] variant = "other_first" -> <<other, own>>
    [] variant = "other" -> <<other>>
    [] variant = "none" -> << >>

CbseColumns(f) ==
  <<"student_id">>
  \o Pair(f.dateA, "cbse_date", "exam_date")
  \o Pair(f.scoreA, "cbse_epc_score", "total_score")
  \o Opt(f.ppA, "step1_pass_prob")
  \o Opt(f.roundA, "exam_round")
  \o Opt(f.bandA, "cbse_band")
  \o Reverse(sorted(f.extraA))

CbssaColumns(f) ==
  <<"student_id">>
  \o Pair(f.dateB, "cbssa_date", "exam_date")
  \o Pair(f.scoreB, "cbssa_epc_score", "total_score")
  \o Opt(f.ppB, "step1_pass_prob")
  \o Opt(f.roundB, "exam_round")
  \o Opt(f.cbseBandB, "cbse_band")
  \o Opt(f.bandB, "cbssa_band")
  \o sorted(f.extraB)

CellOf(fmt, n, i, scores, cv) ==
  CASE n = "student_id" -> Num(i)
    [] n = "cbse_date" -> Date(10 + i)
    [] n = "cbssa_date" -> Date(20 + i)
    [] n = "exam_date" -> IF fmt = "CBSE" THEN Date(30 + i) ELSE Date(10 + i)
    [] n \in {"cbse_epc_score", "cbssa_epc_score"} -> scores[i]
    [] n = "total_score" -> Num(40 * Scale)
    [] n = "step1_pass_prob" -> Num(70)
    [] n = "exam_round" -> Text(i)
    [] n = "cbse_band" -> IF fmt = "CBSE" THEN Text(50 + i) ELSE Text(70 + i)
    [] n = "cbssa_band" -> Text(60 + i)
    [] n = "cohort_year" -> Num(cohort_year(i))
    [] n \in ContentNames -> cv[n]

MkTable(fmt, names, scores, cv) ==
  [p \in DOMAIN names |->
     [name |-> names[p],
      vals |-> [i \in DOMAIN scores |-> CellOf(fmt, names[p], i, scores, cv)]]]

SeqsUpTo(S, n) == UNION {[1..k -> S] : k \in 0..n}

\* the scores a row of a summary file may hold
RowScores == {NaN, Text(0), Num(61 * Scale), Num(64 * Scale), Num(70 * Scale)}

\* the values a content-area cell may hold
ContentVals == {Num(0), Num(55 * Scale), NaN, Text(0)}

Std ==
  [dateA |-> "own", scoreA |-> "own", ppA |-> TRUE, roundA |-> TRUE, bandA |-> TRUE,
   extraA |-> {"Anatomy", "Biochem", "cohort_year"},
   dateB |-> "other_first", scoreB |-> "own", ppB |-> TRUE, roundB |-> TRUE,
   bandB |-> TRUE, cbseBandB |-> FALSE,
   extraB |-> {"Anatomy", "Biochem", "cohort_year"},
   rowsA |-> <<Num(70 * Scale)>>, rowsB |-> <<Num(61 * Scale)>>,
   cvA |-> [c \in ContentNames |-> Num(55 * Scale)],
   cvB |-> [c \in ContentNames |-> Num(45 * Scale)]]

Variants == {"own", "own_first", "other_first", "other", "none"}

\* which date, score and pass-probability columns the files have
RenameInputs ==
  { [Std EXCEPT !.dateA = da, !.scoreA = sa, !.ppA = pa,
                !.dateB = db, !.scoreB = sb, !.ppB = pb] :
      da \in Variants, sa \in Variants \ {"other"}, pa \in BOOLEAN,
      db \in Variants \ {"own_first"}, sb \in {"own", "none"}, pb \in BOOLEAN }

\* which band and exam-round columns the files have
OptionalInputs ==
  { [Std EXCEPT !.roundA = ra, !.bandA = ba, !.roundB = rb, !.bandB = bb,
                !.cbseBandB = cb, !.dateA = da] :
      ra \in BOOLEAN, ba \in BOOLEAN, rb \in BOOLEAN, bb \in BOOLEAN,
      cb \in BOOLEAN, da \in {"own", "other_first"} }

\* which further columns the files have
ExtraInputs ==
  { [Std EXCEPT !.extraA = ea, !.extraB = eb, !.roundA = r, !.roundB = r] :
      ea \in SUBSET ExtraNames, eb \in SUBSET ExtraNames, r \in BOOLEAN }

\* how many rows the files have and which scores
RowInputs ==
  { [Std EXCEPT !.rowsA = p[1], !.rowsB = p[2]] :
      p \in { q \in SeqsUpTo(RowScores, MaxRows) \X SeqsUpTo(RowScores, MaxRows) :
                Len(q[1]) + Len(q[2]) <= MaxRows } }

\* one CBSE row with a score of the grid
GridInputs ==
  { [Std EXCEPT !.rowsA = <<Num(g)>>, !.rowsB = << >>] :
      g \in (GridMin * Scale)..(GridMax * Scale) }

\* the content-area values of the one row of each file
ContentInputs ==
  { [Std EXCEPT !.cvA = [c \in ContentNames |-> IF c = "Anatomy" THEN a1 ELSE a2],
                !.cvB = [c \in ContentNames |-> IF c = "Anatomy" THEN b1 ELSE b2]] :
      a1 \in ContentVals, a2 \in ContentVals, b1 \in ContentVals, b2 \in ContentVals }

Inputs ==
  RenameInputs \cup OptionalInputs \cup ExtraInputs \cup RowInputs
  \cup GridInputs \cup ContentInputs

(***************************************************************************)
(* cbse_qlf.csv: every question row is of student 1 and of the CBSE exam   *)
(* of day 11; a question is given by its content-area description, its     *)
(* correct cell and its content_topic cell.                                *)
(***************************************************************************)
\* most rows of cbse_qlf.csv, where the rows vary
MaxQuestions == 2

QlfColumns ==
  << "student_id", "exam_date", "exam_round", "content_area", "correct",
     "national_pct_correct", "physician_competency", "content_topic",
     "content_description" >>

QlfCell(n, i, q) ==
  CASE n = "student_id" -> Num(1)
    [] n = "exam_date" -> Date(11)
    [] n = "exam_round" -> Text(1)
    [] n = "content_area" -> q.area
    [] n = "correct" -> q.correct
    [] n = "national_pct_correct" -> Num(90 - 10 * i)
    [] n = "physician_competency" -> Text(80)
    [] n = "content_topic" -> q.topic
    [] n = "content_description" -> Text(90 + i)

MkQlf(qs) ==
  [p \in DOMAIN QlfColumns |->
     [name |-> QlfColumns[p],
      vals |-> [i \in DOMAIN qs |-> QlfCell(QlfColumns[p], i, qs[i])]]]

StdQuestion ==
  [area |-> Str("Diagnosis: cardiac arrhythmias"), correct |-> Num(1),
   topic |-> Text(85)]

\* the content-area descriptions of the one-row files
Descriptions ==
  { Str("Diagnosis: cardiac arrhythmias"), Str("Unrelated text"),
    Str(" \tFoundation: x"), Str("Gen Principle: x"), Str("\nGen Principle"),
    Str("diagnosis: x"), Str("Gen principle: x"), Str("Diagnos"),
    Str("x Diagnosis: y"), Str("Foundational"), NaN }

DescriptionInputs == { <<[StdQuestion EXCEPT !.area = a]>> : a \in Descriptions }

\* the questions of the files of several rows
Questions ==
  { [StdQuestion EXCEPT !.area = a, !.correct = c] :
      a \in {Str("Diagnosis: a"), Str("Foundation: b"), Str("Unrelated text")},
      c \in {Num(1), Num(0), Text(0)} }
  \cup { [StdQuestion EXCEPT !.area = Str("Unrelated text"), !.topic = NaN] }

QuestionInputs == SeqsUpTo(Questions, MaxQuestions)

QlfInputs == DescriptionInputs \cup QuestionInputs

(***************************************************************************)
(* Exam histories: a cbse_summary.csv whose rows are all of student 1,     *)
(* with the day, the score, the pass probability and the content-area      *)
(* values of every row given, next to a cbssa_summary.csv without rows.    *)
(***************************************************************************)
\* most exams of the student
MaxExams == 3

\* the content-area values of an exam run over the multiples of 10 in the
\* steps 0..MaxStep
MaxStep == 9

HistStd ==
  [Std EXCEPT !.extraA = ContentNames, !.extraB = ContentNames, !.rowsB = << >>]

HistoryCell(n, i, h) ==
  CASE n = "student_id" -> Num(1)
    [] n = "cbse_date" -> Date(h.dates[i])
    [] n = "cbse_epc_score" -> h.scores[i]
    [] n = "step1_pass_prob" -> h.pps[i]
    [] n \in ContentNames -> h.cv[i][n]
    [] OTHER -> CellOf("CBSE", n, i, h.scores, Std.cvA)

MkHistory(h) ==
  [p \in DOMAIN CbseColumns(HistStd) |->
     [name |-> CbseColumns(HistStd)[p],
      vals |-> [i \in DOMAIN h.dates |-> HistoryCell(CbseColumns(HistStd)[p], i, h)]]]

\* the orders in which n exams can stand in the file
Perms(n) == {p \in [1..n -> 1..n] : \A i, j \in 1..n : p[i] = p[j] => i = j}

TrendScores == {Num(61 * Scale), Num(70 * Scale), NaN}

\* the exams in any order of the file, with any scores
TrendInputs ==
  UNION { { [dates |-> [i \in 1..n |-> 10 + p[i]], scores |-> sc,
             pps |-> [i \in 1..n |-> Num(70)], cv |-> [i \in 1..n |-> Std.cvA]] :
              p \in Perms(n), sc \in [1..n -> TrendScores] } : n \in 1..MaxExams }

TalkScores == {Num(61 * Scale), Num(64 * Scale), Num(70 * Scale)}

TalkProbs == {NaN, Num(59), Num(60), Num(79), Num(80)}

\* the score and pass probability of the exams before the latest one
Decoys == { [score |-> Num(70 * Scale), pp |-> Num(59)],
            [score |-> Num(61 * Scale), pp |-> Num(80)] }

\* the latest exam with any flag and pass probability, anywhere in the file
TalkInputs ==
  UNION { { [dates |-> [i \in 1..n |-> 10 + p[i]],
             scores |-> [i \in 1..n |-> IF p[i] = n THEN sc ELSE dc.score],
             pps |-> [i \in 1..n |-> IF p[i] = n THEN pp ELSE dc.pp],
             cv |-> [i \in 1..n |-> Std.cvA]] :
              p \in Perms(n), sc \in TalkScores, pp \in TalkProbs, dc \in Decoys } :
          n \in 1..MaxRows }

\* the value of content area a of exam i at step k, with offset o
StepValue(i, a, k, o) ==
  Num(((((3 * (i - 1) + NamePos(a)) * k) % 10) * 10 + o) * Scale)

\* content-area values spread over 0..95, one of them missing or no number
WeakInputs ==
  UNION { { [dates |-> [i \in 1..n |-> 10 + i],
             scores |-> [i \in 1..n |-> Num(64 * Scale)],
             pps |-> [i \in 1..n |-> Num(70)],
             cv |-> [i \in 1..n |->
                       [a \in ContentNames |->
                          IF i = 1 /\ a = "Biochem" /\ hole # Num(0) THEN hole
                          ELSE StepValue(i, a, k, o)]]] :
              k \in 0..MaxStep, o \in {0, 5}, hole \in {Num(0), NaN, Text(0)} } :
          n \in 1..MaxExams }

HistoryInputs == TrendInputs \cup TalkInputs \cup WeakInputs

NoView == [page |-> "none", sel |-> << >>, metrics |-> << >>, rows |-> << >>]

\* the script has not run yet
NothingLoaded ==
  /\ pc = "start"
  /\ students = << >>
  /\ exam_records = << >>
  /\ epc_scores = << >>
  /\ qlf_responses = << >>
  /\ errors = << >>
  /\ view = NoView
  /\ raised = ""
  /\ listing = << >>
  /\ report = NoReport
  /\ passed = NoArguments

\* no session and an empty event log
NothingLogged ==
  /\ analytics_file = ""
  /\ session_state = NoState
  /\ clock = 0
  /\ calls = << >>

\* no form of the sidebar has been used
NoRun == [handler |-> "none", args |-> << >>, shown |-> << >>]

\* a user has logged in: the session and the event log after the first run
\* of the script and a login of a@x.org
SignedIn ==
  LET first == initialize_session(World("", 0), NoState, "s1")
      r == login(first.world, first.state, StdUsers, "a@x.org", "secret1")
  IN  /\ analytics_file = r.world.file
      /\ session_state = r.state
      /\ clock = r.world.clock
      /\ calls = << >>
      /\ users_csv = StdUsers
      /\ reset_tokens_csv = NoFile
      /\ issued = 0
      /\ last_run = NoRun
      /\ held = << >>

\* no account files, no form used
NoAccounts ==
  /\ users_csv = NoFile
  /\ reset_tokens_csv = NoFile
  /\ issued = 0
  /\ last_run = NoRun
  /\ held = << >>

\* the summary files vary with the standard question file, or the question
\* file varies with the standard summary files
Init ==
  /\ \E f \in Inputs, qs \in {<<StdQuestion>>} \cup QlfInputs :
       /\ f = Std \/ qs = <<StdQuestion>>
       /\ cbse_csv = MkTable("CBSE", CbseColumns(f), f.rowsA, f.cvA)
       /\ cbssa_csv = MkTable("CBSSA", CbssaColumns(f), f.rowsB, f.cvB)
       /\ qlf_csv = MkQlf(qs)
  /\ NothingLoaded
  /\ SignedIn

\* the files of an exam history
ReportInit ==
  /\ \E h \in HistoryInputs :
       /\ cbse_csv = MkHistory(h)
       /\ cbssa_csv = MkTable("CBSSA", CbssaColumns(HistStd), << >>, Std.cvB)
       /\ qlf_csv = MkQlf(<<StdQuestion>>)
  /\ NothingLoaded
  /\ SignedIn

StdFiles ==
  /\ cbse_csv = MkTable("CBSE", CbseColumns(Std), Std.rowsA, Std.cvA)
  /\ cbssa_csv = MkTable("CBSSA", CbssaColumns(Std), Std.rowsB, Std.cvB)
  /\ qlf_csv = MkQlf(<<StdQuestion>>)

\* the standard files and two accounts, nobody logged in, nothing logged
LogInit ==
  /\ StdFiles
  /\ NothingLoaded
  /\ NothingLogged
  /\ users_csv = StdUsers
  /\ reset_tokens_csv = NoFile
  /\ issued = 0
  /\ last_run = NoRun
  /\ held = << >>

\* the standard files, no account yet
AccountInit ==
  /\ StdFiles
  /\ NothingLoaded
  /\ NothingLogged
  /\ NoAccounts

(***************************************************************************)
(* Actions.  The pages write the event log only through log_user_action;   *)
(* those calls are the steps of LogUserAction and PageView below, and the  *)
(* page actions are the steps of the pages on the tables.                  *)
(***************************************************************************)
\* the script of a logged-in session runs load_data(); on an exception it
\* shows the error and stops
LoadData ==
  /\ pc = "start"
  /\ gate(session_state)
  /\ LET res == load_data(cbse_csv, cbssa_csv)
     IN  /\ pc' = IF res.ok THEN "loaded" ELSE "stopped"
         /\ students' = IF res.ok THEN Roster ELSE << >>
         /\ qlf_responses' = IF res.ok THEN qlf_processing(qlf_csv) ELSE << >>
         /\ exam_records' = res.exam_records
         /\ epc_scores' = res.epc_scores
         /\ errors' = res.errors
  /\ UNCHANGED <<files, log, accounts, view, raised, listing, report, passed>>

TriagePage(selected_cohort, risk_levels, exam_filter) ==
  /\ pc = "loaded"
  /\ selected_cohort \in {0} \cup available_cohorts(exam_records)
  /\ risk_levels # {}
  /\ view' = triage_view(exam_records, selected_cohort, risk_levels, exam_filter)
  /\ pc' = "rendered"
  /\ UNCHANGED <<files, log, accounts, students, exam_records, epc_scores, qlf_responses, errors,
                 raised, listing, report, passed>>

CohortPage(selected_cohorts, selected_exams) ==
  /\ pc = "loaded"
  /\ selected_cohorts # {} /\ selected_cohorts \subseteq available_cohorts(exam_records)
  /\ selected_exams # {} /\ selected_exams \subseteq available_exams(exam_records)
  /\ view' = cohort_view(exam_records, epc_scores, selected_cohorts, selected_exams)
  /\ pc' = "rendered"
  /\ UNCHANGED <<files, log, accounts, students, exam_records, epc_scores, qlf_responses, errors,
                 raised, listing, report, passed>>

\* the Individual Student Dashboard without the report button pressed
StudentPage(selected_id, selected_exam) ==
  /\ pc = "loaded"
  /\ selected_exam \in {AllExams} \cup exam_choices(exam_records, selected_id)
  /\ students' = student_lookup(students)
  /\ raised' = exam_history_raises(
                  student_slice(exam_records, selected_id, selected_exam))
  /\ view' = student_view(epc_scores, selected_id, selected_exam)
  /\ listing' = IF raised' = ""
                THEN question_listing(
                       student_qlf(qlf_responses, selected_id, selected_exam))
                ELSE << >>
  /\ pc' = "rendered"
  /\ UNCHANGED <<files, log, accounts, exam_records, epc_scores, qlf_responses, errors,
                 report, passed>>

\* the Individual Student Dashboard with the report button pressed
GeneratePdf(selected_id) ==
  /\ pc = "loaded"
  /\ students' = student_lookup(students)
  /\ raised' = exam_history_raises(student_slice(exam_records, selected_id, AllExams))
  /\ view' = pdf_view(epc_scores, selected_id)
  /\ LET args == report_arguments(student_lookup(students), exam_records,
                                  epc_scores, qlf_responses, selected_id)
     IN  /\ report' = generate_student_pdf_report(
                         args.student_exams, args.student_epc,
                         pdf_value_vars(epc_scores), args.student_qlf)
         /\ passed' = arguments_after_call(args)
  /\ listing' = IF raised' = ""
                THEN question_listing(student_qlf(qlf_responses, selected_id, AllExams))
                ELSE << >>
  /\ pc' = "rendered"
  /\ UNCHANGED <<files, log, accounts, exam_records, epc_scores, qlf_responses, errors>>

\* an interaction makes the script run again from the top; load_data is
\* memoized with st.cache_data, which hands out a copy of what it returned
Rerun ==
  /\ pc = "rendered"
  /\ pc' = "loaded"
  /\ students' = Roster
  /\ view' = NoView
  /\ raised' = ""
  /\ listing' = << >>
  /\ report' = NoReport
  /\ passed' = NoArguments
  /\ UNCHANGED <<files, log, accounts, exam_records, epc_scores, qlf_responses, errors>>

Next ==
  \/ LoadData
  \/ Rerun
  \/ \E c \in {0, 2026, 2027}, rl \in SUBSET {"Red", "Yellow", "Green"},
        ef \in {"Most Recent", "All Exams"} : TriagePage(c, rl, ef)
  \/ \E cs \in SUBSET {2026, 2027} :
       \E es \in SUBSET available_exams(exam_records) : CohortPage(cs, es)
  \/ \E id \in StudentIds :
       \E ex \in {AllExams} \cup exam_choices(exam_records, id) : StudentPage(id, ex)
  \/ \E id \in StudentIds : GeneratePdf(id)

Spec == Init /\ [][Next]_vars

\* the report of every student of an exam history
ReportNext ==
  \/ LoadData
  \/ Rerun
  \/ \E id \in StudentIds : GeneratePdf(id)

ReportSpec == ReportInit /\ [][ReportNext]_vars

\* the inputs of the event log
Emails == {"a@x.org", "kmcallister@nbme.org"}
SessionIds == {"s1", "s2"}
ActionNames == {"student_lookup"}
\* what is typed into the login form
LoginInputs ==
  (Emails \X {"secret1", "wrong"}) \cup {<<"b@x.org", "secret1">>, <<"a@x.org", "">>}
DetailInputs ==
  { None,
    Dict(<< Item("student_id", Np(Num(1))),
            Item("student_name", Str("Yu, \"Al\"\nJr")) >>),
    Dict(<< Item("latest_score", Np(NaN)),
            Item("latest_flag", None),
            Item("has_epc_data", Bool(TRUE)),
            Item("exam_types_included", List(<<Str("CBSE"), Str("CBSSA")>>)),
            Item("risk_flag_distribution", Dict(<<Item("Red", Np(Num(2)))>>)) >>) }

\* the script as it stands when a handler starts
Now == World(analytics_file, clock)

\* a handler has run and left the session state r.state and the world r.world
Moved(r) ==
  /\ session_state' = r.state
  /\ analytics_file' = r.world.file
  /\ clock' = r.world.clock
  /\ calls' = r.world.calls

Ran(r) == Moved(r) /\ UNCHANGED <<data, accounts>>

\* the first run of the script in a browser session
InitializeSession(uuid) ==
  /\ ~has(session_state, "session_id")
  /\ Ran(initialize_session(Now, session_state, uuid))

Login(login_email, login_password) ==
  /\ has(session_state, "session_id")
  /\ ~gate(session_state)
  /\ clock < MaxClock
  /\ LET r == login(Now, session_state, users_csv, login_email, login_password)
     IN  /\ Moved(r)
         /\ last_run' = [handler |-> "login",
                         args |-> [login_email |-> login_email,
                                   login_password |-> login_password],
                         shown |-> r.shown]
  /\ UNCHANGED <<data, users_csv, reset_tokens_csv, issued, held>>

\* the Logout button: the session is cleared and the script, run again, stops
\* at the check
Logout ==
  /\ gate(session_state)
  /\ clock < MaxClock
  /\ Moved(logout(Now, session_state))
  /\ pc' = "start"
  /\ students' = << >>
  /\ exam_records' = << >>
  /\ epc_scores' = << >>
  /\ qlf_responses' = << >>
  /\ errors' = << >>
  /\ view' = NoView
  /\ raised' = ""
  /\ listing' = << >>
  /\ report' = NoReport
  /\ passed' = NoArguments
  /\ UNCHANGED <<files, accounts>>

\* the navigation box with page chosen, or tried: the page view is logged and
\* the script takes the branch of the page
PageView(page) ==
  /\ gate(session_state)
  /\ pc \in {"loaded", "rendered"}
  /\ clock < MaxClock
  /\ Moved(log_page_view(Now, session_state, current_user(session_state).s, page))
  /\ view' = [page |-> page_branch(page, session_state)]
  /\ pc' = "rendered"
  /\ UNCHANGED <<files, accounts, students, exam_records, epc_scores, qlf_responses,
                 errors, raised, listing, report, passed>>

\* any call of log_user_action from a page
LogUserAction(user_email, action, details) ==
  /\ gate(session_state)
  /\ pc \in {"loaded", "rendered"}
  /\ clock < MaxClock
  /\ Ran([state |-> session_state,
          world |-> log_user_action(Now, session_state, user_email, action, details)])

LogNext ==
  \/ \E uuid \in SessionIds : InitializeSession(uuid)
  \/ \E typed \in LoginInputs : Login(typed[1], typed[2])
  \/ Logout
  \/ LoadData
  \/ \E page \in mode_options(session_state) \cup {"Analytics"} : PageView(page)
  \/ \E user_email \in {""} \cup Emails, action \in ActionNames,
        details \in DetailInputs :
       LogUserAction(user_email, action, details)

LogSpec == LogInit /\ [][LogNext]_vars

RegisterForms ==
  { Form("a@x.org", "Al", "Yu", "N/A", "secret1", TRUE),
    Form("NA", "Bo", "Ade", "Dean", "secret1", TRUE),
    Form("123", "Cy", "Yu", "Dean", "secret1", TRUE),
    Form("a@x.org", "Al", "Yu", "Dean", "secret1", FALSE),
    Form("", "Al", "Yu", "Dean", "secret1", TRUE),
    Form("b@x.org", "Al", "Yu", "Dean", "", TRUE) }

ResetEmails == {"", "a@x.org", "b@x.org", "123"}
\* whether the sender is configured, and the step of the mail that fails
MailInputs ==
  {<<FALSE, "sent">>, <<TRUE, "sent">>} \cup {<<TRUE, step>> : step \in SeqToSet(SmtpSteps)}
\* the new password and its confirmation
NewPasswords ==
  {<<"", "">>, <<"abc", "abc">>, <<"secret2", "secret2">>, <<"secret2", "abc">>}

\* secrets.token_urlsafe(32): a token no earlier call has returned
generate_reset_token(n) == "tok" \o ToStr(n + 1)
\* the tokens of the links that can be opened: those sent so far and one
\* that never was
ResetTokens(n) == {generate_reset_token(i) : i \in 0..(n - 1)} \cup {"bogus"}

\* an account handler has run
AccountRan(handler, args, r) ==
  /\ users_csv' = r.users
  /\ reset_tokens_csv' = r.tokens
  /\ last_run' = [handler |-> handler, args |-> args, shown |-> r.shown]
  /\ UNCHANGED <<data, log, held>>

Register(form) ==
  /\ Len(users_csv.rows) < MaxUsers
  /\ AccountRan("register", form, register(users_csv, reset_tokens_csv, form))
  /\ UNCHANGED issued

RequestReset(reset_email, email_configured, smtp) ==
  /\ issued < MaxTokens
  /\ LET r == request_reset(users_csv, reset_tokens_csv, reset_email,
                            generate_reset_token(issued), clock, email_configured, smtp)
     IN  /\ AccountRan("request_reset",
                       [reset_email |-> reset_email, smtp |-> smtp,
                        email_configured |-> email_configured,
                        token |-> generate_reset_token(issued)], r)
         /\ issued' = IF r.tokens # reset_tokens_csv THEN issued + 1 ELSE issued

UpdatePassword(reset_token, new_password, confirm_password) ==
  /\ AccountRan("update_password",
                [reset_token |-> reset_token, new_password |-> new_password,
                 confirm_password |-> confirm_password, at |-> clock],
                update_password(users_csv, reset_tokens_csv, reset_token,
                                new_password, confirm_password, clock))
  /\ UNCHANGED issued

\* time passes, half the life of a reset link at a time
Step == TokenLifetime \div 2

Tick ==
  /\ clock + Step <= MaxSteps * Step
  /\ clock' = clock + Step
  /\ UNCHANGED <<data, accounts, analytics_file, session_state, calls>>

AccountNext ==
  \/ \E form \in RegisterForms : Register(form)
  \/ \E reset_email \in ResetEmails, mail \in MailInputs :
       RequestReset(reset_email, mail[1], mail[2])
  \/ \E reset_token \in ResetTokens(issued), typed \in NewPasswords :
       UpdatePassword(reset_token, typed[1], typed[2])
  \/ Tick

AccountSpec == AccountInit /\ [][AccountNext]_vars

(***************************************************************************)
(* Two sessions use the account files at once.  Each runs its own copy of  *)
(* the script; the steps of one session between two accesses to a file    *)
(* are one action, and the steps of the sessions interleave.  held.by[s]   *)
(* is what session s has in hand: the function it is in, the frame it has  *)
(* read and its arguments.  held.told is what the sessions have been told: *)
(* the tokens saved and not used since, each with its email, and the       *)
(* emails of the accounts reported as created.                             *)
(***************************************************************************)
Idle == [op |-> "idle", frame |-> << >>, args |-> << >>]
InHand(s, op, frame, args) ==
  [held EXCEPT !.by[s] = [op |-> op, frame |-> frame, args |-> args]]
Done(s, told) == [by |-> [held.by EXCEPT ![s] = Idle], told |-> held.told \cup told]

\* the two accounts there are when the sessions start
RaceUsers ==
  to_csv(<<new_user(Form("a@x.org", "Al", "Yu", "Dean", "secret1", TRUE)),
           new_user(Form("b@x.org", "Bo", "Ade", "Dean", "secret1", TRUE))>>,
         UserFields)
RaceForms ==
  { Form("c@x.org", "Cy", "Yu", "Dean", "secret1", TRUE),
    Form("d@x.org", "Di", "Ade", "Dean", "secret1", TRUE) }
RaceEmails == {"a@x.org", "b@x.org"}

\* save_reset_token up to the read of reset_tokens.csv (lines 543-552)
ReadTokens(s, email) ==
  /\ held.by[s].op = "idle"
  /\ issued < MaxTokens
  /\ in_values(read_csv(users_csv, UserFields), "email", Str(email))
  /\ held' = InHand(s, "save_reset_token", tokens_frame(reset_tokens_csv),
                    [email |-> email, token |-> generate_reset_token(issued),
                     current_time |-> clock])
  /\ issued' = issued + 1
  /\ UNCHANGED <<data, log, users_csv, reset_tokens_csv, last_run>>

\* save_reset_token from the filter to the write (lines 554-570)
WriteTokens(s) ==
  /\ held.by[s].op = "save_reset_token"
  /\ reset_tokens_csv' =
       overwrite(reset_tokens_csv,
                 with_new_token(held.by[s].frame, held.by[s].args.email,
                                held.by[s].args.token, held.by[s].args.current_time),
                 TokenFields)
  /\ held' = Done(s, {<<"token", held.by[s].args.email, held.by[s].args.token>>})
  /\ UNCHANGED <<data, log, users_csv, issued, last_run>>

\* the page of a reset link with a valid token, up to the read of
\* clear_reset_token (lines 672-673 and 593-598)
ReadToClear(s, token) ==
  /\ held.by[s].op = "idle"
  /\ truthy(verify_reset_token(reset_tokens_csv, token, clock))
  /\ held' = InHand(s, "clear_reset_token", read_csv(reset_tokens_csv, TokenFields),
                    [token |-> token])
  /\ UNCHANGED <<data, log, users_csv, reset_tokens_csv, issued, last_run>>

\* clear_reset_token from the filter to the write (lines 599-600)
WriteCleared(s) ==
  /\ held.by[s].op = "clear_reset_token"
  /\ reset_tokens_csv' =
       overwrite(reset_tokens_csv,
                 without_token(held.by[s].frame, held.by[s].args.token), TokenFields)
  /\ held' = [by |-> [held.by EXCEPT ![s] = Idle],
              told |-> {x \in held.told :
                          ~(x[1] = "token" /\ x[3] = held.by[s].args.token)}]
  /\ UNCHANGED <<data, log, users_csv, issued, last_run>>

\* the Register handler up to the test of the email (lines 634-650), for a
\* form that is filled in
ReadUsers(s, form) ==
  /\ held.by[s].op = "idle"
  /\ LET users_df == IF users_csv.exists THEN read_csv(users_csv, UserFields) ELSE << >>
     IN  /\ ~in_values(users_df, "email", Str(form.email))
         /\ held' = InHand(s, "register", users_df, form)
  /\ UNCHANGED <<data, log, users_csv, reset_tokens_csv, issued, last_run>>

\* the Register handler from the hash to "Account created!" (lines 652-665)
WriteUsers(s) ==
  /\ held.by[s].op = "register"
  /\ users_csv' = overwrite(users_csv,
                            Append(held.by[s].frame, new_user(held.by[s].args)),
                            UserFields)
  /\ held' = Done(s, {<<"account", held.by[s].args.email>>})
  /\ UNCHANGED <<data, log, reset_tokens_csv, issued, last_run>>

RaceInit ==
  /\ StdFiles
  /\ NothingLoaded
  /\ NothingLogged
  /\ users_csv = RaceUsers
  /\ reset_tokens_csv = NoFile
  /\ issued = 0
  /\ last_run = NoRun
  /\ held = [by |-> [s \in SessionIds |-> Idle], told |-> {}]

RaceNext ==
  \E s \in SessionIds :
    \/ \E email \in RaceEmails : ReadTokens(s, email)
    \/ WriteTokens(s)
    \/ \E token \in ResetTokens(issued) : ReadToClear(s, token)
    \/ WriteCleared(s)
    \/ \E form \in RaceForms : ReadUsers(s, form)
    \/ WriteUsers(s)

RaceSpec == RaceInit /\ [][RaceNext]_vars

(***************************************************************************)
(* Properties.                                                             *)
(***************************************************************************)
Loaded == pc \in {"loaded", "rendered"}

ER == Rows(exam_records)

nA == RowCount(cbse_csv)

nB == RowCount(cbssa_csv)

\* C1: for every numeric score s of a loaded exam row the flag is Green iff
\* s >= 66, Yellow iff 62 <= s < 66 and Red iff s < 62, and it is one of
\* the three flags.
C1_ClassifierThresholds ==
  Loaded =>
    \A i \in DOMAIN ER :
      ER[i]["total_score"].k = "num" =>
        LET sc == ER[i]["total_score"].v
            f == ER[i]["flag"].s
        IN  /\ f \in {"Green", "Yellow", "Red"}
            /\ (f = "Green") <=> (sc >= 66 * Scale)
            /\ (f = "Yellow") <=> (62 * Scale <= sc /\ sc < 66 * Scale)
            /\ (f = "Red") <=> (sc < 62 * Scale)

\* a row of exactly 62 points is loaded and flagged Yellow
C1_Witness ==
  /\ Loaded
  /\ \E i \in DOMAIN ER :
       ER[i]["total_score"] = Num(62 * Scale) /\ ER[i]["flag"] = Str("Yellow")

\* C2: in exam_records every row's flag is the classifier's value for that
\* row's total_score, and total_score and flag are, row by row, the ones
\* each source table had when its flags were assigned, CBSE rows first.
C2_FlagMatchesScore ==
  Loaded =>
    /\ \A i \in DOMAIN ER : ER[i]["flag"] = Str(assign_flag(ER[i]["total_score"]))
    /\ Col(exam_records, "total_score").vals
         = Col(DropDuplicateColumns(RenameCbse(cbse_csv)), "total_score").vals
           \o Col(DropDuplicateColumns(RenameCbssa(cbssa_csv)), "total_score").vals

\* two CBSE rows with different flags are loaded, one of a missing score
C2_Witness ==
  /\ Loaded
  /\ nA = 2
  /\ ER[1]["flag"] # ER[2]["flag"]
  /\ \E i \in DOMAIN ER : ER[i]["total_score"] = NaN

\* C4: exam_records has one row per source row, CBSE rows tagged CBSE and
\* CBSSA rows tagged CBSSA, and every column of the canonical schema; a
\* score of 70 is flagged Green and a score of 61 Red.
C4_TaggedUnion ==
  Loaded =>
    /\ RowCount(exam_records) = nA + nB
    /\ \A c \in {"student_id", "exam_type", "exam_date", "total_score", "flag",
                 "step1_pass_prob", "band"} :
         /\ HasCol(exam_records, c)
         /\ Len(Col(exam_records, c).vals) = nA + nB
    /\ \A i \in DOMAIN ER :
         /\ ER[i]["exam_type"] = Str(IF i <= nA THEN "CBSE" ELSE "CBSSA")
         /\ ER[i]["student_id"] = Num(IF i <= nA THEN i ELSE i - nA)
         /\ ER[i]["total_score"] = Num(70 * Scale) => ER[i]["flag"] = Str("Green")
         /\ ER[i]["total_score"] = Num(61 * Scale) => ER[i]["flag"] = Str("Red")

\* the scenario: student 1 with a CBSE score of 70 and a CBSSA score of 61
C4_Witness ==
  /\ Loaded
  /\ Len(ER) = 2
  /\ ER[1]["student_id"] = Num(1) /\ ER[2]["student_id"] = Num(1)
  /\ ER[1]["exam_type"] = Str("CBSE") /\ ER[1]["total_score"] = Num(70 * Scale)
  /\ ER[1]["flag"] = Str("Green")
  /\ ER[2]["exam_type"] = Str("CBSSA") /\ ER[2]["total_score"] = Num(61 * Scale)
  /\ ER[2]["flag"] = Str("Red")

\* C3: every display and filter path gives the level of assign_flag: the
\* triage 'Expected Flag' equals the stored flag, and in the cohort overview
\* the rows with score >= 66 are as many as the Green rows and the rows with
\* score < 66 as many as the Red and Yellow rows.
C3_ThresholdsAgree ==
  /\ view.page = "triage" => \A i \in DOMAIN view.rows : view.rows[i].FlagMatch
  /\ view.page = "cohort" =>
       /\ view.metrics.above_threshold = view.metrics.ready
       /\ view.metrics.intervention_needed
            = view.metrics.red_flags + view.metrics.yellow_flags

\* C5: for every row of exam_records, exam_date is the value of the source's
\* own date column (cbse_date, cbssa_date) and total_score the value of the
\* source's own score column, whatever other columns the source has.
C5_OwnDateAndScore ==
  Loaded =>
    /\ \A i \in 1..nA :
         /\ HasCol(cbse_csv, "cbse_date") =>
              ER[i]["exam_date"] = Col(cbse_csv, "cbse_date").vals[i]
         /\ HasCol(cbse_csv, "cbse_epc_score") =>
              ER[i]["total_score"] = Col(cbse_csv, "cbse_epc_score").vals[i]
    /\ \A i \in 1..nB :
         /\ HasCol(cbssa_csv, "cbssa_date") =>
              ER[nA + i]["exam_date"] = Col(cbssa_csv, "cbssa_date").vals[i]
         /\ HasCol(cbssa_csv, "cbssa_epc_score") =>
              ER[nA + i]["total_score"] = Col(cbssa_csv, "cbssa_epc_score").vals[i]

\* every column load_data needs besides the band and exam-round columns is
\* there, and the scores are numbers or missing
RequiredPresent ==
  /\ \A c \in {"student_id", "cbse_date", "cbse_epc_score", "step1_pass_prob"} :
       HasCol(cbse_csv, c)
  /\ \A c \in {"student_id", "cbssa_date", "exam_date", "cbssa_epc_score",
               "step1_pass_prob"} : HasCol(cbssa_csv, c)
  /\ \A i \in 1..nA : Col(cbse_csv, "cbse_epc_score").vals[i].k # "text"
  /\ \A i \in 1..nB : Col(cbssa_csv, "cbssa_epc_score").vals[i].k # "text"

\* C6: whichever of the band and exam-round columns the two sources have,
\* load_data succeeds, and exam_records has a band column, null where the
\* source had none.
C6_OptionalColumnsLoad ==
  (pc # "start" /\ RequiredPresent) =>
    /\ Loaded
    /\ HasCol(exam_records, "band")
    /\ \A i \in 1..nA :
         ~HasCol(cbse_csv, "cbse_band") => ER[i]["band"] = None
    /\ \A i \in 1..nB :
         ~HasCol(cbssa_csv, "cbssa_band") => ER[nA + i]["band"] = None

\* the columns load_data requires of a source that the source lacks
MissingRequired(t, own_date, own_score) ==
  SelectSeq(<<"student_id", "exam_date", "total_score", "step1_pass_prob">>,
            LAMBDA c : /\ ~HasCol(t, c)
                       /\ c = "exam_date" => ~HasCol(t, own_date)
                       /\ c = "total_score" => ~HasCol(t, own_score))

\* C7: when a required column is absent, the run stops before any view, no
\* table is handed on, and an error lists the missing columns and the
\* columns that are present.
C7_MissingColumnReported ==
  \A src \in { [fmt |-> "CBSE", t |-> cbse_csv, d |-> "cbse_date", sc |-> "cbse_epc_score"],
               [fmt |-> "CBSSA", t |-> cbssa_csv, d |-> "cbssa_date", sc |-> "cbssa_epc_score"] } :
    (pc # "start" /\ MissingRequired(src.t, src.d, src.sc) # << >>) =>
      /\ pc = "stopped"
      /\ view = NoView /\ exam_records = << >> /\ epc_scores = << >>
      /\ \E k \in DOMAIN errors :
           /\ errors[k].kind = "missing_columns"
           /\ errors[k].table = src.fmt
           /\ SeqToSet(MissingRequired(src.t, src.d, src.sc))
                \subseteq SeqToSet(errors[k].missing)
           /\ errors[k].available # << >>

\* C8: a row whose score is missing has a missing flag, none of Green,
\* Yellow, Red, and is counted in no flag-based count.
C8_MissingScoreMissingFlag ==
  Loaded =>
    \A i \in DOMAIN ER :
      ER[i]["total_score"].k # "num" => IsNA(ER[i]["flag"])

\* the metadata names that never are content areas
MetadataNames ==
  { "student_id", "exam_type", "exam_date", "exam_round",
    "total_score", "flag", "cohort_year", "step1_pass_prob",
    "step1_ready", "in_low_pass_range", "cbse_band", "cbssa_band", "band",
    "exam_order", "month", "year_offset", "exam_year",
    "first_name", "last_name", "full_name" }

\* the columns of epc_scores after the identifier columns
ContentAreas ==
  SelectSeq(Columns(epc_scores),
            LAMBDA c : c \notin {"student_id", "exam_type", "exam_date", "exam_round"})

\* C9: the content-area columns of epc_scores are exactly the names that are
\* columns of both source files and are no metadata names, in alphabetic
\* order, whichever format is taken first; no metadata name is among them.
C9_SharedContentAreas ==
  Loaded =>
    /\ SeqToSet(ContentAreas)
         = (SeqToSet(Columns(cbse_csv)) \cap SeqToSet(Columns(cbssa_csv)))
           \ MetadataNames
    /\ \A i, j \in DOMAIN ContentAreas :
         i < j => NamePos(ContentAreas[i]) < NamePos(ContentAreas[j])
    /\ shared_epc_cols(Prepared(cbssa_csv, "CBSSA"), Prepared(cbse_csv, "CBSE"))
         = ContentAreas
    /\ Columns(epc_scores)
         = static_cols(Prepared(cbse_csv, "CBSE"), Prepared(cbssa_csv, "CBSSA"))
           \o ContentAreas

\* two shared areas, listed in the CBSE file in the other order, one area of
\* one file only and a metadata column in both files
C9_Witness ==
  /\ Loaded
  /\ ContentAreas = <<"Anatomy", "Biochem">>
  /\ \E i, j \in DOMAIN cbse_csv :
       i < j /\ cbse_csv[i].name = "Biochem" /\ cbse_csv[j].name = "Anatomy"
  /\ HasCol(cbse_csv, "Cardio") /\ ~HasCol(cbssa_csv, "Cardio")
  /\ HasCol(cbse_csv, "cohort_year") /\ HasCol(cbssa_csv, "cohort_year")

\* the rows of epc_scores a page melts
MeltedSlice ==
  CASE view.page = "student" ->
         student_epc(epc_scores, view.sel.student, view.sel.exam)
    [] view.page = "pdf" -> OfStudent(Rows(epc_scores), view.sel.student)
    [] view.page = "cohort" ->
         cohort_filter(Rows(epc_scores), view.sel.cohorts, view.sel.exams)
    [] OTHER -> << >>

\* the long table has a row of exam r and content area c
InLong(r, c) ==
  \E k \in DOMAIN view.rows :
    /\ view.rows[k].EPC = c
    /\ view.rows[k].student_id = r["student_id"]
    /\ view.rows[k].exam_type = r["exam_type"]
    /\ view.rows[k].exam_date = r["exam_date"]
    /\ view.rows[k].Score = r[c]

\* every row of the long table is a numeric value of the wide table
LongFromWide ==
  \A k \in DOMAIN view.rows :
    /\ view.rows[k].Score.k = "num"
    /\ \E i \in DOMAIN MeltedSlice :
         /\ view.rows[k].EPC \in DOMAIN MeltedSlice[i]
         /\ view.rows[k].Score = MeltedSlice[i][view.rows[k].EPC]
         /\ view.rows[k].student_id = MeltedSlice[i]["student_id"]
         /\ view.rows[k].exam_type = MeltedSlice[i]["exam_type"]

UniqueColumns(t) == \A i, j \in DOMAIN t : t[i].name = t[j].name => i = j

\* the first column of t, in column order, whose name is one of names
FirstOf(t, names) ==
  t[CHOOSE i \in DOMAIN t :
      /\ t[i].name \in names
      /\ \A j \in 1..(i - 1) : t[j].name \notin names]

\* C20: no table load_data returns has two columns of one name, and where
\* the rename of the CBSE file makes two columns named exam_date or two
\* named total_score, the loaded column holds the values of the one that
\* comes first in the file.
C20_DuplicatesKeepFirst ==
  Loaded =>
    /\ UniqueColumns(exam_records)
    /\ UniqueColumns(epc_scores)
    /\ UniqueColumns(qlf_responses)
    /\ UniqueColumns(students)
    /\ \A i \in 1..nA :
         /\ ER[i]["exam_date"]
              = FirstOf(cbse_csv, {"cbse_date", "exam_date"}).vals[i]
         /\ ER[i]["total_score"]
              = FirstOf(cbse_csv, {"cbse_epc_score", "total_score"}).vals[i]

\* a CBSE file with exam_date before cbse_date is loaded: the rename makes
\* two exam_date columns and the loaded dates are those of the first
C20_Witness ==
  /\ Loaded
  /\ nA >= 1
  /\ \E i, j \in DOMAIN cbse_csv :
       i < j /\ cbse_csv[i].name = "exam_date" /\ cbse_csv[j].name = "cbse_date"
  /\ ER[1]["exam_date"] = Col(cbse_csv, "exam_date").vals[1]
  /\ ER[1]["exam_date"] # Col(cbse_csv, "cbse_date").vals[1]

\* the rows of exam_records the student page of the current view works on
PageExams ==
  student_slice(exam_records, view.sel.student, view.sel.exam)

\* C11: the Individual Student view runs to its end without raising, also
\* for a student without exam records and for a student without a
\* content-area score above 0.
C11_NoDataDoesNotRaise ==
  (view.page \in {"student", "pdf"} /\ (PageExams = << >> \/ view.rows = << >>))
    => raised = ""

\* C13: once loaded, the tables are the ones load_data returned, whatever
\* pages were viewed and whatever was selected on them.
C13_TablesStayAsLoaded ==
  Loaded =>
    /\ students = Roster
    /\ exam_records = load_data(cbse_csv, cbssa_csv).exam_records
    /\ epc_scores = load_data(cbse_csv, cbssa_csv).epc_scores

QR == Rows(qlf_responses)

\* the string x is whitespace followed by a text that starts with label l
MatchesLabel(x, l) ==
  \E k \in 0..Len(x) :
    /\ \A j \in 1..k : IsSpace(CharAt(x, j))
    /\ k + Len(l) <= Len(x)
    /\ SubSeq(x, k + 1, k + Len(l)) = l

\* C14: the category of a question row is the one of the labels Diagnosis,
\* Foundation, Gen Principle its content-area description starts with after
\* leading whitespace, in exactly that spelling, and null if it starts with
\* none; "Diagnosis: cardiac arrhythmias" gives Diagnosis and
\* "Unrelated text" gives null.
C14_CategoryIsPrefixLabel ==
  Loaded =>
    /\ RowCount(qlf_responses) = RowCount(qlf_csv)
    /\ \A i \in DOMAIN QR :
         LET desc == QR[i]["content_area"]
             cat == QR[i]["score_category"]
         IN  /\ desc = Col(qlf_csv, "content_area").vals[i]
             /\ \A l \in SeqToSet(Labels) :
                  (cat = Str(l)) <=> (desc.k = "str" /\ MatchesLabel(desc.s, l))
             /\ cat = NaN \/ \E l \in SeqToSet(Labels) : cat = Str(l)
             /\ desc = Str("Diagnosis: cardiac arrhythmias") => cat = Str("Diagnosis")
             /\ desc = Str("Unrelated text") => cat = NaN

\* a description with leading whitespace is loaded with its category
C14_Witness ==
  /\ Loaded
  /\ \E i \in DOMAIN QR :
       /\ QR[i]["content_area"] = Str(" \tFoundation: x")
       /\ QR[i]["score_category"] = Str("Foundation")

\* C12: when the report is made, the four tables passed to
\* generate_student_pdf_report have the columns and values they had before
\* the call.
C12_ReportKeepsArguments ==
  view.page = "pdf" =>
    passed = report_arguments(students, exam_records, epc_scores, qlf_responses,
                              view.sel.student)

\* the question rows of the student of the current page, as loaded
PageQuestions == student_qlf(qlf_responses, view.sel.student, view.sel.exam)

\* a question row the listing has to show whatever its category: its answer
\* is a number and none of its display columns is empty
Listable(r) ==
  /\ r["correct"].k = "num"
  /\ \A c \in {"physician_competency", "content_topic", "content_description"} :
       ~IsNA(r[c])

\* a question row a category can count: its answer is a number
Countable(r) == r["correct"].k = "num"

\* C15: in the report's category table every category counts exactly the
\* student's answered questions of that category, so a question without a
\* category is in no count and no sum; and the question listing of the page
\* shows every question whose answer and display columns are filled,
\* whether or not it has a category.
C15_NullCategoryGroupedOut ==
  (view.page \in {"student", "pdf"} /\ raised = "") =>
    /\ view.page = "pdf" =>
         /\ \A g \in DOMAIN report.qlf_summary :
              LET of_g == SelectSeq(PageQuestions,
                            LAMBDA r : Countable(r)
                              /\ r["score_category"] = Str(report.qlf_summary[g].category))
              IN  /\ report.qlf_summary[g].count = Len(of_g)
                  /\ report.qlf_summary[g].sum = SumCorrect(of_g)
         /\ \A i \in DOMAIN PageQuestions :
              (Countable(PageQuestions[i]) /\ ~IsNA(PageQuestions[i]["score_category"]))
                => \E g \in DOMAIN report.qlf_summary :
                     Str(report.qlf_summary[g].category)
                       = PageQuestions[i]["score_category"]
         /\ \A g, h \in DOMAIN report.qlf_summary :
              report.qlf_summary[g].category = report.qlf_summary[h].category => g = h
    /\ Len(listing) = Len(SelectSeq(PageQuestions, Listable))
    /\ \A i \in DOMAIN PageQuestions :
         Listable(PageQuestions[i]) =>
           \E k \in DOMAIN listing :
             /\ listing[k]["content_description"]
                  = PageQuestions[i]["content_description"]
             /\ listing[k]["score_category"] = PageQuestions[i]["score_category"]
             /\ listing[k]["correct"] = PageQuestions[i]["correct"]

\* a report of two answered questions, one without a category: the category
\* table counts one question, the listing shows both
C15_Witness ==
  /\ view.page = "pdf" /\ raised = ""
  /\ Len(PageQuestions) = 2
  /\ \E i \in DOMAIN PageQuestions :
       IsNA(PageQuestions[i]["score_category"]) /\ PageQuestions[i]["correct"] = Num(1)
  /\ Len(report.qlf_summary) = 1
  /\ report.qlf_summary[1].count = 1
  /\ Len(listing) = 2
  /\ \E k \in DOMAIN listing : IsNA(listing[k]["score_category"])

\* the exams of the student of the report, in the order of the file
ReportExams == OfStudent(ER, view.sel.student)

\* the exams of the earliest and of the latest date among them
FirstExams ==
  {e \in SeqToSet(ReportExams) :
     \A x \in SeqToSet(ReportExams) : e["exam_date"].v <= x["exam_date"].v}

LastExams ==
  {e \in SeqToSet(ReportExams) :
     \A x \in SeqToSet(ReportExams) : x["exam_date"].v <= e["exam_date"].v}

Exceeds(l, f) ==
  /\ l["total_score"].k = "num" /\ f["total_score"].k = "num"
  /\ l["total_score"].v > f["total_score"].v

\* C16: the trend of the report is Improving if the student has more than
\* one exam and the score of the exam of the latest date is strictly above
\* the score of the exam of the earliest date, and Stable in every other
\* case; the exams in between play no part.
C16_TrendFirstAgainstLast ==
  (view.page = "pdf" /\ ReportExams # << >>) =>
    /\ report.score_trend \in {"Improving", "Stable"}
    /\ report.score_trend = "Improving" =>
         /\ Len(ReportExams) > 1
         /\ \E f \in FirstExams, l \in LastExams : Exceeds(l, f)
    /\ (Len(ReportExams) > 1 /\ \A f \in FirstExams, l \in LastExams : Exceeds(l, f))
         => report.score_trend = "Improving"

\* three exams, out of date order in the file: the earliest and the latest
\* have 70 points, the one in between 61, and the trend is Stable
C16_Witness ==
  /\ view.page = "pdf"
  /\ Len(ReportExams) = 3
  /\ ReportExams[1]["exam_date"].v > ReportExams[2]["exam_date"].v
  /\ \A f \in FirstExams \cup LastExams : f["total_score"] = Num(70 * Scale)
  /\ \E e \in SeqToSet(ReportExams) : e["total_score"] = Num(61 * Scale)
  /\ report.score_trend = "Stable"

\* the (exam, content area) pairs of the student whose value is a number
ReportCells ==
  {c \in (DOMAIN OfStudent(Rows(epc_scores), view.sel.student))
          \X SeqToSet(ContentAreas) :
     OfStudent(Rows(epc_scores), view.sel.student)[c[1]][c[2]].k = "num"}

CellValue(c) == OfStudent(Rows(epc_scores), view.sel.student)[c[1]][c[2]].v

WE == report.weakest_epcs

Min(a, b) == IF a < b THEN a ELSE b

\* C17: the content-area table of the report has at most 8 rows, as many as
\* there are scores up to 8; its rows are scores of the student in
\* ascending order, below every score value of the table exactly the
\* student's scores below it are listed, and the priority of a row is High
\* below 50, Medium from 50 to below 60 and Low from 60 on.
C17_WeakestEightAscending ==
  view.page = "pdf" =>
    /\ Len(WE) = Min(8, Cardinality(ReportCells))
    /\ \A k \in DOMAIN WE :
         /\ WE[k].Score.k = "num"
         /\ k > 1 => WE[k - 1].Score.v <= WE[k].Score.v
         /\ Cardinality({j \in DOMAIN WE : WE[j].EPC = WE[k].EPC
                                           /\ WE[j].Score = WE[k].Score})
              <= Cardinality({c \in ReportCells : c[2] = WE[k].EPC
                                                 /\ CellValue(c) = WE[k].Score.v})
         /\ Cardinality({j \in DOMAIN WE : WE[j].Score.v < WE[k].Score.v})
              = Cardinality({c \in ReportCells : CellValue(c) < WE[k].Score.v})
         /\ \A c \in ReportCells : CellValue(c) >= WE[k].Score.v \/ k > 1
         /\ WE[k].recommendation
              = (IF WE[k].Score.v < 50 * Scale THEN "High Priority"
                 ELSE IF WE[k].Score.v < 60 * Scale THEN "Medium Priority"
                 ELSE "Low Priority")

\* nine scores, not in ascending order in the file: the table lists eight
\* of them, of all three priorities, and leaves out the highest
C17_Witness ==
  /\ view.page = "pdf"
  /\ Cardinality(ReportCells) = 9
  /\ Len(WE) = 8
  /\ \E c \in ReportCells : \A k \in DOMAIN WE : WE[k].Score.v < CellValue(c)
  /\ \E c, e \in ReportCells : c[1] < e[1] /\ CellValue(c) > CellValue(e)
  /\ {WE[k].recommendation : k \in DOMAIN WE}
       = {"High Priority", "Medium Priority", "Low Priority"}
  /\ \E k \in DOMAIN WE : WE[k].Score = Num(50 * Scale)
  /\ \E k \in DOMAIN WE : WE[k].Score = Num(60 * Scale)

TP == report.talking_points

Has(point) == \E k \in DOMAIN TP : TP[k] = point

\* the exam of the latest date
Latest == CHOOSE e \in LastExams : TRUE

\* the pass probability of the latest exam, in hundredths, or -1 if missing
LatestProb ==
  IF "step1_pass_prob" \in DOMAIN Latest /\ Latest["step1_pass_prob"].k = "num"
  THEN Latest["step1_pass_prob"].v ELSE -1

\* C18: the talking points of the report follow the exam of the latest date:
\* flag Red gives the two intervention points, Yellow the two
\* targeted-support points, any other flag the maintain point alone; a pass
\* probability below 0.6 gives the risk-assessment point, one from 0.6 to
\* below 0.8 the preparation-strategy point, one of 0.8 or more or a
\* missing one neither; the four closing points end the list.
C18_TalkingPointRules ==
  view.page = "pdf" =>
    /\ Len(TP) >= 4 /\ SubSeq(TP, Len(TP) - 3, Len(TP)) = closing_points
    /\ \A j, k \in DOMAIN TP : TP[j] = TP[k] => j = k
    /\ ReportExams # << >> =>
         /\ Cardinality(LastExams) = 1
         /\ (Has("Immediate Intervention") /\ Has("Step 1 Timing"))
              <=> Latest["flag"] = Str("Red")
         /\ (Has("Immediate Intervention") \/ Has("Step 1 Timing"))
              => Latest["flag"] = Str("Red")
         /\ (Has("Targeted Support") /\ Has("Progress Monitoring"))
              <=> Latest["flag"] = Str("Yellow")
         /\ (Has("Targeted Support") \/ Has("Progress Monitoring"))
              => Latest["flag"] = Str("Yellow")
         /\ Has("Maintain Excellence")
              <=> Latest["flag"] \notin {Str("Red"), Str("Yellow")}
         /\ Has("Step 1 Risk Assessment") <=> (0 <= LatestProb /\ LatestProb < 60)
         /\ Has("Step 1 Preparation Strategy")
              <=> (60 <= LatestProb /\ LatestProb < 80)
    /\ ReportExams = << >> =>
         \A k \in DOMAIN TP : TP[k] \in SeqToSet(closing_points)

\* the latest exam, not the last row of the file, is Yellow with a pass
\* probability of exactly 0.6, the earlier exam is Red with 0.8: the points
\* are the targeted-support pair and the preparation strategy
C18_Witness ==
  /\ view.page = "pdf"
  /\ Len(ReportExams) = 2
  /\ ReportExams[1] = Latest
  /\ Latest["flag"] = Str("Yellow") /\ Latest["step1_pass_prob"] = Num(60)
  /\ ReportExams[2]["flag"] = Str("Red") /\ ReportExams[2]["step1_pass_prob"] = Num(80)
  /\ Has("Targeted Support") /\ Has("Progress Monitoring")
  /\ Has("Step 1 Preparation Strategy")
  /\ ~Has("Immediate Intervention") /\ ~Has("Step 1 Risk Assessment")

\* C19: the event log is append-only.  In every step the lines of the file
\* are the lines it held before, unchanged, followed by exactly one line for
\* each call of log_user_action with a non-empty user, in the order of the
\* calls, and by nothing for a call with an empty user; the line of a call is
\* one JSON object that holds the timestamp, the date, the session
\* identifier, the user, the action name, the detail payload and the current
\* view name of the call.
Field(key, val) == "\"" \o key \o "\": " \o dumps(val)

Payload(c) == make_json_serializable(IF truthy(c.details) THEN c.details ELSE Dict(<< >>))

EntryLine(c) ==
  "{" \o Field("timestamp", time(c.now))
      \o ", " \o Field("datetime", Str(isoformat(c.now)))
      \o ", " \o Field("session_id", get(c.state, "session_id", Str("unknown")))
      \o ", " \o Field("user_email", Str(c.user_email))
      \o ", " \o Field("action", Str(c.action))
      \o ", " \o Field("details", Payload(c))
      \o ", " \o Field("page_mode", get(c.state, "current_mode", Str("unknown")))
      \o "}\n"

RECURSIVE EntryLines(_)
EntryLines(cs) ==
  IF cs = << >> THEN << >>
  ELSE (IF Head(cs).user_email # "" THEN <<EntryLine(Head(cs))>> ELSE << >>)
         \o EntryLines(Tail(cs))

C19_EventLogAppendOnly ==
  [][analytics_file' # analytics_file \/ calls' # calls
       => readlines(analytics_file') = readlines(analytics_file) \o EntryLines(calls')]_vars

\* a call with an empty user has left a log of two or more lines as it was
C19_Witness ==
  /\ Len(readlines(analytics_file)) >= 2
  /\ calls # << >>
  /\ EntryLines(calls) = << >>

\* C26: with the triage filter "Most Recent" every listed student is listed
\* for their most recent exam in the selected cohort: when the exams of a
\* listed student all carry a date, the flag of the latest of them is one of
\* the selected readiness levels.
CohortExams ==
  LET base == MergeCohort(Rows(exam_records))
  IN  IF view.sel.cohort = 0 THEN base
      ELSE SelectSeq(base, LAMBDA r : r["cohort_year"] = Num(view.sel.cohort))

ExamsOf(id) == SelectSeq(CohortExams, LAMBDA r : r["student_id"] = id)

Dated(rows) == \A i \in DOMAIN rows : rows[i]["exam_date"].k = "date"

LatestExams(rows) ==
  { rows[i] : i \in { j \in DOMAIN rows :
                        \A l \in DOMAIN rows :
                          rows[l]["exam_date"].v <= rows[j]["exam_date"].v } }

C26_MostRecentIsLatest ==
  (pc = "rendered" /\ view.page = "triage" /\ view.sel.exam_filter = "Most Recent")
    => \A i \in DOMAIN view.rows :
         Dated(ExamsOf(view.rows[i].student_id))
           => \E r \in LatestExams(ExamsOf(view.rows[i].student_id)) :
                r["flag"].s \in view.sel.risk_levels


(***************************************************************************)
(* The account forms.                                                      *)
(***************************************************************************)
\* C27: after registration attempts run one at a time, no two rows of
\* users.csv have the same email
C27_UniqueEmails ==
  \A i, j \in DOMAIN users_csv.rows :
    users_csv.rows[i]["email"] = users_csv.rows[j]["email"] => i = j


\* C24: after any sequence of save_reset_token calls the token file holds at
\* most one token per email
C24_OneTokenPerEmail ==
  \A i, j \in DOMAIN reset_tokens_csv.rows :
    reset_tokens_csv.rows[i]["email"] = reset_tokens_csv.rows[j]["email"] => i = j


\* C25: a password update changes only the password of the account the token
\* was issued for: every row of users.csv stays, with every other cell as it
\* was, and the password cell of every other account too
C25_OnlyThePasswordChanges ==
  [][last_run'.handler = "update_password"
       => /\ DOMAIN users_csv'.rows = DOMAIN users_csv.rows
          /\ \A i \in DOMAIN users_csv.rows :
               /\ \A f \in UserFields \ {"password"} :
                    users_csv'.rows[i][f] = users_csv.rows[i][f]
               /\ users_csv'.rows[i]["password"] # users_csv.rows[i]["password"]
                    => \E j \in DOMAIN reset_tokens_csv.rows :
                         /\ reset_tokens_csv.rows[j]["token"] = last_run'.args.reset_token
                         /\ reset_tokens_csv.rows[j]["email"] = users_csv.rows[i]["email"]]_vars


\* a reset request whose mail failed has just run
MailFailed ==
  /\ last_run'.handler = "request_reset"
  /\ last_run' # last_run
  /\ \E i \in DOMAIN last_run'.shown :
       last_run'.shown[i] = "Failed to send email. Contact administrator."

\* C21: a mail-delivery failure during a password-reset request is logged:
\* the request leaves an entry in the event log
C21_MailFailureLogged ==
  [][MailFailed => readlines(analytics_file') # readlines(analytics_file)]_vars


\* what the request that has just run would have shown for another email
ShownFor(other) ==
  request_reset(users_csv, reset_tokens_csv, other, last_run'.args.token, clock,
                last_run'.args.email_configured, last_run'.args.smtp).shown

\* C29: the response to a password-reset request does not reveal whether the
\* email is registered: a request with any other email, registered or not,
\* made in the same state is shown the same
C29_ResponseHidesRegistration ==
  [][(last_run'.handler = "request_reset" /\ last_run' # last_run
        /\ last_run'.args.reset_email # "")
       => \A other \in ResetEmails \ {""} : ShownFor(other) = last_run'.shown]_vars


(***************************************************************************)
(* Sessions at once.                                                       *)
(***************************************************************************)
RowsOf(file) == {file.rows[i] : i \in DOMAIN file.rows}

\* the rows a session may leave in a file: those of the frame it read and
\* the one it adds
OwnRows(h) ==
  CASE h.op = "save_reset_token" ->
         RowsOf(to_csv(Append(h.frame, [email |-> Str(h.args.email),
                                        token |-> Str(h.args.token),
                                        timestamp |-> time(h.args.current_time)]),
                       TokenFields))
    [] h.op = "clear_reset_token" -> RowsOf(to_csv(h.frame, TokenFields))
    [] h.op = "register" ->
         RowsOf(to_csv(Append(h.frame, new_user(h.args)), UserFields))
    [] OTHER -> {}

\* C22: the writers of the account files are not coordinated: when a session
\* rewrites reset_tokens.csv or users.csv, the file holds afterwards only rows
\* the session itself read or adds, so a row another session wrote since the
\* read is discarded
C22_RewriteDiscardsLaterWrites ==
  [][\A s \in SessionIds :
       (held.by[s].op # "idle" /\ held'.by[s].op = "idle")
         => /\ RowsOf(reset_tokens_csv') # RowsOf(reset_tokens_csv)
                 => RowsOf(reset_tokens_csv') \subseteq OwnRows(held.by[s])
            /\ RowsOf(users_csv') # RowsOf(users_csv)
                 => RowsOf(users_csv') \subseteq OwnRows(held.by[s])]_vars

\* a token that was saved, for an email with no other token and not used, is
\* not in reset_tokens.csv, and an account reported as created is not in
\* users.csv
C22_Witness ==
  /\ \E x \in held.told :
       /\ x[1] = "token"
       /\ \A y \in held.told : (y[1] = "token" /\ y[2] = x[2]) => y = x
       /\ \A r \in RowsOf(reset_tokens_csv) : r["token"] # x[3]
  /\ \E x \in held.told :
       /\ x[1] = "account"
       /\ \A r \in RowsOf(users_csv) : r["email"] # x[2]


(***************************************************************************)
(* Sessions.                                                               *)
(***************************************************************************)
\* the text has the part somewhere in it
Within(text, part) ==
  \E i \in 1..(Len(text) - Len(part) + 1) : SubSeq(text, i, i + Len(part) - 1) = part

\* C30: session start is logged before any other entry of the session: the
\* first entry of the event log is a session_start entry
C30_SessionStartLoggedFirst ==
  analytics_file # ""
    => Within(readlines(analytics_file)[1], "\"action\": \"session_start\"")


\* the account of users.csv with this email and this password
Account(email, password) ==
  \E r \in RowsOf(users_csv) : r["email"] = email /\ r["password"] = hash(password)

\* the session state says that a login has succeeded
LoggedIn(state) ==
  has(state, "authentication_status") /\ state["authentication_status"] = Bool(TRUE)

\* C23: a session that has not logged in, or has logged out since, stops
\* before load_data and before any view; authentication_status becomes true
\* only by a login whose email is in users.csv and whose password verifies
\* against the stored hash, and Logout clears the whole session state
C23_DashboardOnlyAfterLogin ==
  [][/\ pc' # "start" => LoggedIn(session_state')
     /\ (~LoggedIn(session_state) /\ LoggedIn(session_state'))
         => /\ last_run'.handler = "login"
            /\ session_state'["username"] = Str(last_run'.args.login_email)
            /\ Account(last_run'.args.login_email, last_run'.args.login_password)
     /\ (LoggedIn(session_state) /\ ~LoggedIn(session_state'))
         => session_state' = NoState /\ pc' = "start"]_vars

\* a session that has logged out and whose next login was refused stands
\* before the check
C23_Witness ==
  /\ pc = "start"
  /\ ~LoggedIn(session_state)
  /\ last_run.handler = "login"
  /\ last_run.shown = <<"Invalid password">>
  /\ Len(readlines(analytics_file)) = 3

\* C28: the Analytics page is rendered for administrators only, and a user
\* who is none and tries it ends in the access-denied branch
C28_AnalyticsOnlyForAdmins ==
  (pc = "rendered" /\ LoggedIn(session_state))
    => /\ view.page = "analytics" => session_state["username"].s \in ADMIN_EMAILS
       /\ (session_state["current_mode"] = Str("Analytics")
             /\ session_state["username"].s \notin ADMIN_EMAILS)
            => view.page = "access_denied"

\* a user who is no administrator has tried the Analytics page
C28_Witness ==
  /\ pc = "rendered"
  /\ session_state["username"] = Str("a@x.org")
  /\ session_state["current_mode"] = Str("Analytics")
  /\ view.page = "access_denied"

====
